---- MODULE Spec2Model ----
(***************************************************************************)
(* A model of xscout's multi-source ingestion layer: the orchestrator      *)
(* fetch_posts of scout.py and the source adapters under sources/.         *)
(*                                                                         *)
(* The module holds several specifications over one set of variables:      *)
(*   SpecOrch   the orchestrator loop of scout.py (fetch_posts, then       *)
(*              posts_to_json), adapters seen through their outcome        *)
(*   SpecFetch  one adapter's fetch call, one HTTP request per step        *)
(*   SpecRate   the adapters' request pacing against a monotonic clock     *)
(*   SpecPlan   the query plan an adapter builds from topic and queries    *)
(*   SpecTrunc  the truncation of a body or an abstract, by character      *)
(*   SpecScenario  a run of fetch_posts against fixed API answers          *)
(*   SpecMap    the field mappers, run twice on one response               *)
(*   SpecLimiter  the per-module request clocks over several calls         *)
(*   SpecConc   two fetch calls run side by side                           *)
(*   SpecTerms  the default search terms of a topic, by character          *)
(*   SpecWindow the server-side window chosen for a lookback               *)
(*   SpecDedup  the merge loops of a HackerNews call, hit by hit           *)
(*   SpecFetchFair  SpecFetch with every enabled step taken                *)
(* Each specification leaves the variables of the others untouched.        *)
(***************************************************************************)
EXTENDS Integers, Sequences, FiniteSets, TLC

VARIABLES
    \* ---- orchestrator (scout.py) ----
    source_names,   \* the list of source names fetch_posts is called with
    queries,        \* the explicit query list it is called with, or None
    environ,        \* the X credential variables set in os.environ
    idx,            \* position of the for loop over source_names (1-based)
    all_posts,      \* fetch_posts' accumulator
    pc,             \* "loop" | "returned" | "exit" | "serialized"
    calls,          \* one record per adapter.fetch invocation
    http_calls,     \* number of HTTP requests issued so far in the run
    stderr,         \* the messages fetch_posts printed to sys.stderr
    posts_json,     \* the document posts_to_json built, or None
    \* ---- one adapter's fetch call (sources/*.py) ----
    f_adapter,      \* the adapter's name
    f_in,           \* the arguments of fetch and what the query plan is built from
    f_pc,           \* "start" | "run" | "returned" | "raised"
    f_plan,         \* the requests still to issue, in order
    f_requests,     \* the HTTP requests issued so far, in order
    f_posts,        \* fetch's posts list
    f_seen,         \* fetch's seen set (seen_ids, seen_urls, seen_uris, seen)
    f_local,        \* Lobsters: the posts list local to _fetch_by_tag / _fetch_newest_filtered
    f_pending,      \* HackerNews: a hit of this query makes the merge loop raise
    f_events,       \* what went wrong so far: a subset of {"fail", "malformed"}
    f_warnings,     \* the warnings the adapter printed to sys.stderr
    f_cut,          \* Lobsters: the page requests that showed a story older than the cutoff
    f_cause,        \* why fetch raised: "credentials" | "request_failed" | "payload"
    f_result,       \* the list fetch returned
    \* ---- the request clock of one adapter (_rate_limit) ----
    r_adapter,      \* the adapter's name
    r_now,          \* time.monotonic(), in ticks of half a second
    r_last,         \* the module's _last_request_time
    r_starts,       \* the start times of the HTTP requests issued so far
    r_left,         \* the requests fetch has still to issue
    r_pc,           \* "call" | "send" | "done"
    \* ---- the query plan of one fetch call (_build_search_terms etc.) ----
    p_adapter,      \* the adapter's name
    p_topic,        \* the topic string: its comma-separated segments
    p_queries,      \* the explicit query list, if one is passed
    p_terms,        \* search_terms
    p_todo,         \* the requests still to build, in order
    p_out,          \* the requests built so far: endpoint, query and filters
    p_max_results,  \* the max_results fetch is called with
    p_limits,       \* the result-count parameter of each request built so far
    p_pc,           \* "start" | "loop" | "done"
    \* ---- the truncation of one body (github.py, huggingface.py, civitai.py) ----
    t_impl,         \* whose truncation: "github" | "huggingface" | "civitai"
    t_body,         \* the body, description or summary: a sequence of characters
    t_out,          \* what the truncation made of it
    t_pc,           \* "start" | "done"
    \* ---- a run of fetch_posts against fixed API answers ----
    s_fixture,      \* what the API of each source answers to every request
    \* ---- the field mapping of one response (the _normalize of each adapter) ----
    m_mapper,       \* the mapper: adapter name and kind of request
    m_items,        \* the items of the response, in order
    m_cutoff,       \* the cutoff the mapper is called with (lobsters, huggingface)
    m_now,          \* the clock reading, in hours
    m_runs,         \* what each run of the mapper on the response produced
    \* ---- the request clocks of the process (the _last_request_time of each module) ----
    l_now,          \* time.monotonic(), in ticks of half a second
    l_last,         \* the _last_request_time of each module that has one
    l_log,          \* the calls of _rate_limit so far: module, calling instance, times
    l_idle,         \* whether the process has just been idle
    \* ---- adapters run by concurrent workers ----
    c_adapter,      \* the adapter each worker runs
    c_pc,           \* each worker: "call" | "read" | "sleep" | "write" | "send" | "done"
    c_now,          \* time.monotonic(), in ticks of half a second
    c_last,         \* the _last_request_time of each module that has one
    c_wake,         \* each worker: when its time.sleep is over
    c_plan,         \* each worker: the requests its fetch has still to issue
    c_posts,        \* each worker: the posts list of its fetch
    c_seen,         \* each worker: the seen set of its fetch
    c_resp,         \* each worker: the responses its requests got, in order
    c_starts,       \* each worker: the start times of its requests
    c_writers,      \* who wrote what: variable, its owner, the writing worker
    \* ---- the default search terms of one topic string (_build_search_terms) ----
    b_adapter,      \* the adapter whose builder runs
    b_topic,        \* the topic string, character by character
    b_queries,      \* the queries argument: None or a list
    b_terms,        \* the list the builder returned
    b_pc,           \* "call" | "done"
    \* ---- the server-side window of one lookback (_time_filter, _period_filter) ----
    w_adapter,      \* "reddit" | "civitai"
    w_hours,        \* lookback_hours
    w_label,        \* the label the filter returned, None before
    w_pc,           \* "call" | "done"
    \* ---- the merge loops of one HackerNews fetch call, hit by hit ----
    h_max,          \* max_results
    h_left,         \* the queries still to be searched
    h_seen,         \* seen_ids
    h_posts,        \* posts
    h_dropped,      \* the seen keys of the hits that gave no Post
    h_result,       \* the list fetch returned
    h_pc            \* "run" | "returned"

orchVars == <<source_names, queries, environ, idx, all_posts, pc, calls,
              http_calls, stderr, posts_json>>

fetchVars == <<f_adapter, f_in, f_pc, f_plan, f_requests, f_posts, f_seen,
               f_local, f_pending, f_events, f_warnings, f_cut,
               f_cause, f_result>>

rateVars == <<r_adapter, r_now, r_last, r_starts, r_left, r_pc>>

planVars == <<p_adapter, p_topic, p_queries, p_terms, p_todo, p_out,
              p_max_results, p_limits, p_pc>>

truncVars == <<t_impl, t_body, t_out, t_pc>>

scenarioVars == <<s_fixture>>

mapVars == <<m_mapper, m_items, m_cutoff, m_now, m_runs>>

limiterVars == <<l_now, l_last, l_log, l_idle>>

concVars == <<c_adapter, c_pc, c_now, c_last, c_wake, c_plan, c_posts, c_seen, c_resp, c_starts, c_writers>>

termsVars == <<b_adapter, b_topic, b_queries, b_terms, b_pc>>

windowVars == <<w_adapter, w_hours, w_label, w_pc>>

dedupVars == <<h_max, h_left, h_seen, h_posts, h_dropped, h_result, h_pc>>

vars == <<orchVars, fetchVars, rateVars, planVars, truncVars, scenarioVars, mapVars, limiterVars, concVars, termsVars, windowVars, dedupVars>>

notOrch == <<fetchVars, rateVars, planVars, truncVars, scenarioVars, mapVars, limiterVars, concVars, termsVars, windowVars, dedupVars>>
notFetch == <<orchVars, rateVars, planVars, truncVars, scenarioVars, mapVars, limiterVars, concVars, termsVars, windowVars, dedupVars>>
notRate == <<orchVars, fetchVars, planVars, truncVars, scenarioVars, mapVars, limiterVars, concVars, termsVars, windowVars, dedupVars>>
notPlan == <<orchVars, fetchVars, rateVars, truncVars, scenarioVars, mapVars, limiterVars, concVars, termsVars, windowVars, dedupVars>>
notTrunc == <<orchVars, fetchVars, rateVars, planVars, scenarioVars, mapVars, limiterVars, concVars, termsVars, windowVars, dedupVars>>
notScenario == <<orchVars, fetchVars, rateVars, planVars, truncVars, mapVars, limiterVars, concVars, termsVars, windowVars, dedupVars>>
notMap == <<orchVars, fetchVars, rateVars, planVars, truncVars, scenarioVars, limiterVars, concVars, termsVars, windowVars, dedupVars>>
notLimiter == <<orchVars, fetchVars, rateVars, planVars, truncVars, scenarioVars, mapVars, concVars, termsVars, windowVars, dedupVars>>
notConc == <<orchVars, fetchVars, rateVars, planVars, truncVars, scenarioVars, mapVars, limiterVars, termsVars, windowVars, dedupVars>>
notTerms == <<orchVars, fetchVars, rateVars, planVars, truncVars, scenarioVars, mapVars, limiterVars, concVars, windowVars, dedupVars>>
notWindow == <<orchVars, fetchVars, rateVars, planVars, truncVars, scenarioVars, mapVars, limiterVars, concVars, termsVars, dedupVars>>
notDedup == <<orchVars, fetchVars, rateVars, planVars, truncVars, scenarioVars, mapVars, limiterVars, concVars, termsVars, windowVars>>

None == "None"

\* An absent value (a missing field, "" or None) is the empty tuple, a present
\* one the 1-tuple of it.
Absent == <<>>
Some(v) == <<v>>

\* ---- the variables of the parts a specification leaves alone

OrchIdle ==
    /\ source_names = <<>> /\ queries = None /\ environ = {} /\ idx = 1
    /\ all_posts = <<>> /\ pc = "idle" /\ calls = <<>> /\ http_calls = 0
    /\ stderr = <<>> /\ posts_json = None

FetchIdle ==
    /\ f_adapter = None /\ f_in = None /\ f_pc = "idle" /\ f_plan = <<>>
    /\ f_requests = <<>> /\ f_posts = <<>> /\ f_seen = {} /\ f_local = <<>>
    /\ f_pending = FALSE /\ f_events = {} /\ f_warnings = {} /\ f_cut = {}
    /\ f_cause = "none" /\ f_result = <<>>

RateIdle ==
    /\ r_adapter = None /\ r_now = 0 /\ r_last = 0 /\ r_starts = <<>>
    /\ r_left = 0 /\ r_pc = "idle"

PlanIdle ==
    /\ p_adapter = None /\ p_topic = <<>> /\ p_queries = <<>> /\ p_terms = <<>>
    /\ p_todo = <<>> /\ p_out = <<>> /\ p_max_results = 0 /\ p_limits = <<>>
    /\ p_pc = "idle"

TruncIdle ==
    /\ t_impl = None /\ t_body = <<>> /\ t_out = <<>> /\ t_pc = "idle"

ScenarioIdle ==
    /\ s_fixture = <<>>

MapIdle ==
    /\ m_mapper = None /\ m_items = <<>> /\ m_cutoff = 0 /\ m_now = 0 /\ m_runs = <<>>

LimiterIdle ==
    /\ l_now = 0 /\ l_last = <<>> /\ l_log = <<>> /\ l_idle = FALSE

ConcIdle ==
    /\ c_adapter = <<>> /\ c_pc = <<>> /\ c_now = 0 /\ c_last = <<>> /\ c_wake = <<>>
    /\ c_plan = <<>> /\ c_posts = <<>> /\ c_seen = <<>> /\ c_resp = <<>> /\ c_starts = <<>>
    /\ c_writers = {}

TermsIdle ==
    /\ b_adapter = None /\ b_topic = <<>> /\ b_queries = Absent /\ b_terms = <<>>
    /\ b_pc = "idle"

WindowIdle ==
    /\ w_adapter = None /\ w_hours = 0 /\ w_label = None /\ w_pc = "idle"

DedupIdle ==
    /\ h_max = 0 /\ h_left = 0 /\ h_seen = {} /\ h_posts = <<>> /\ h_dropped = {}
    /\ h_result = <<>> /\ h_pc = "idle"

\* every part but those named in g is idle
OthersIdle(g) ==
    /\ "orch" \in g \/ OrchIdle
    /\ "fetch" \in g \/ FetchIdle
    /\ "rate" \in g \/ RateIdle
    /\ "plan" \in g \/ PlanIdle
    /\ "trunc" \in g \/ TruncIdle
    /\ "scenario" \in g \/ ScenarioIdle
    /\ "map" \in g \/ MapIdle
    /\ "limiter" \in g \/ LimiterIdle
    /\ "conc" \in g \/ ConcIdle
    /\ "terms" \in g \/ TermsIdle
    /\ "window" \in g \/ WindowIdle
    /\ "dedup" \in g \/ DedupIdle

\* ------------------------------------------------------------------ bounds

\* longest list of source names fetch_posts is called with
MaxSources == 2
\* most posts one adapter.fetch returns in the orchestrator model
MaxPosts == 1
\* most search terms of one fetch call
MaxTerms == 2
\* most items in one response
MaxItems == 2

\* ------------------------------------------------------- program constants

\* len(DEFAULT_SUBREDDITS)
NumDefaultSubreddits == 4
\* _fetch_by_tag: for page in range(1, 4)
TagPages == 3
\* fetch: max_pages=4 of _fetch_newest_filtered
NewestPages == 4

\* ------------------------------------------------------------ small helpers

SeqsUpTo(S, n) == UNION {[1..k -> S] : k \in 0..n}

RECURSIVE Flatten(_)
Flatten(ss) == IF ss = <<>> THEN <<>> ELSE Head(ss) \o Flatten(Tail(ss))

Range(s) == {s[i] : i \in DOMAIN s}

\* ------------------------------------------------------- sources/__init__.py

\* the registry: source name -> adapter class
ADAPTERS ==
    [x |-> "XAdapter", reddit |-> "RedditAdapter", civitai |-> "CivitAIAdapter",
     arxiv |-> "ArxivAdapter", lobsters |-> "LobstersAdapter",
     hackernews |-> "HackerNewsAdapter", github |-> "GitHubAdapter"]

\* every adapter class defined under sources/, with the value of its name property
AdapterClasses ==
    [XAdapter |-> "x", RedditAdapter |-> "reddit", CivitAIAdapter |-> "civitai",
     ArxivAdapter |-> "arxiv", LobstersAdapter |-> "lobsters",
     HackerNewsAdapter |-> "hackernews", GitHubAdapter |-> "github",
     BlueskyAdapter |-> "bluesky", HuggingFaceAdapter |-> "huggingface"]

\* every mapper of XAdapter tagging its Posts "twitter"
SourceLiteral_twitter ==
    [XAdapter |-> "twitter", RedditAdapter |-> "reddit", CivitAIAdapter |-> "civitai",
     ArxivAdapter |-> "arxiv", LobstersAdapter |-> "lobsters",
     HackerNewsAdapter |-> "hackernews", GitHubAdapter |-> "github",
     BlueskyAdapter |-> "bluesky", HuggingFaceAdapter |-> "huggingface"]

\* the source="..." literal the mappers of each class give their Posts
SourceLiteral ==
    [XAdapter |-> "x", RedditAdapter |-> "reddit", CivitAIAdapter |-> "civitai",
     ArxivAdapter |-> "arxiv", LobstersAdapter |-> "lobsters",
     HackerNewsAdapter |-> "hackernews", GitHubAdapter |-> "github",
     BlueskyAdapter |-> "bluesky", HuggingFaceAdapter |-> "huggingface"]

\* ------------------------------------------------------------- sources/x.py

\* _get_bearer_token, by what it does with os.environ: the token it returns
\* ("token" a non-empty one, "empty" the empty string) or "raise", and the HTTP
\* requests it issued. With only the consumer/api key pair set it exchanges
\* them over HTTP, outside any try.
_get_bearer_token_pair_or(env) ==
    IF "X_BEARER_TOKEN" \in env
    THEN {[token |-> "token", http |-> 0]}
    ELSE IF ~("X_CONSUMER_KEY" \in env \/ "X_API_KEY" \in env)
    THEN {[token |-> "empty", http |-> 0]}
    ELSE {[token |-> t, http |-> 1] : t \in {"token", "empty", "raise"}}

_get_bearer_token(env) ==
    IF "X_BEARER_TOKEN" \in env
    THEN {[token |-> "token", http |-> 0]}
    ELSE IF ~("X_CONSUMER_KEY" \in env) \/ ~("X_API_KEY" \in env)
    THEN {[token |-> "empty", http |-> 0]}
    ELSE {[token |-> t, http |-> 1] : t \in {"token", "empty", "raise"}}

\* ------------------------------------------------------------------ scout.py

\* the inputs of the orchestrator model
SourceNameInputs == DOMAIN ADAPTERS \cup {"foo"}
PostUrls == {"u1", "u2"}
QueryInputs == {Absent, Some(<<"q1">>)}
EnvironInputs == {{}, {"X_BEARER_TOKEN"}, {"X_CONSUMER_KEY"}, {"X_CONSUMER_KEY", "X_API_KEY"}}

\* a Post as the orchestrator sees it (it reads no field; source and url are kept
\* to tell Posts apart)
PostsOf(name) == SeqsUpTo([source : {SourceLiteral[ADAPTERS[name]]}, url : PostUrls], MaxPosts)

\* What adapter.fetch(...) can do, seen from fetch_posts: return a list of Posts
\* or raise, after its HTTP requests (the searches of one fetch count as one
\* request here; SpecFetch follows them one by one). XAdapter.fetch first needs a
\* bearer token and raises before its first search when it has none.
FetchOutcomes(name, env) ==
    LET ran == {[raised |-> FALSE, posts |-> ps, http |-> 1] : ps \in PostsOf(name)}
                 \cup {[raised |-> TRUE, posts |-> <<>>, http |-> 1]}
    IN  IF name # "x" THEN ran
        ELSE UNION {
               IF t.token = "token"
               THEN {[o EXCEPT !.http = t.http + @] : o \in ran}
               ELSE {[raised |-> TRUE, posts |-> <<>>, http |-> t.http]}
             : t \in _get_bearer_token(env)}

\* all_posts.extend(posts)
extend_dedup(acc, posts) ==
    acc \o SelectSeq(posts, LAMBDA p : \A i \in DOMAIN acc : acc[i].url # p.url)

extend(acc, posts) == acc \o posts

\* the queries handed to every adapter
adapter_queries_all(name, qs) == qs

\* adapter_queries = queries if name == "x" else None
adapter_queries(name, qs) == IF name = "x" THEN qs ELSE Absent

OrchInit ==
    /\ source_names \in SeqsUpTo(SourceNameInputs, MaxSources)
    /\ queries \in QueryInputs
    /\ environ \in EnvironInputs
    /\ idx = 1
    /\ all_posts = <<>>
    /\ pc = "loop"
    /\ calls = <<>>
    /\ http_calls = 0
    /\ stderr = <<>>
    /\ posts_json = None
    /\ OthersIdle({"orch"})

\* lines 47-50: the name is not registered: print and sys.exit(1)
UnknownSource ==
    /\ pc = "loop"
    /\ idx <= Len(source_names)
    /\ source_names[idx] \notin DOMAIN ADAPTERS
    /\ stderr' = Append(stderr, [kind |-> "unknown_source", name |-> source_names[idx]])
    /\ pc' = "exit"
    /\ UNCHANGED <<source_names, queries, environ, idx, all_posts, calls,
                   http_calls, posts_json>>
    /\ UNCHANGED notOrch

\* lines 52-62: adapter.fetch(...) returns and its posts are appended
AdapterReturns ==
    /\ pc = "loop"
    /\ idx <= Len(source_names)
    /\ source_names[idx] \in DOMAIN ADAPTERS
    /\ \E o \in FetchOutcomes(source_names[idx], environ) :
        /\ ~o.raised
        /\ calls' = Append(calls, [name |-> source_names[idx],
                                   queries |-> adapter_queries(source_names[idx], queries),
                                   raised |-> FALSE, posts |-> o.posts, http |-> o.http])
        /\ all_posts' = extend(all_posts, o.posts)
        /\ http_calls' = http_calls + o.http
    /\ idx' = idx + 1
    /\ UNCHANGED <<source_names, queries, environ, pc, stderr, posts_json>>
    /\ UNCHANGED notOrch

\* lines 55-64: adapter.fetch(...) raises; the except clause prints and the loop
\* goes on
AdapterRaises_aborts ==
    /\ pc = "loop"
    /\ idx <= Len(source_names)
    /\ source_names[idx] \in DOMAIN ADAPTERS
    /\ \E o \in FetchOutcomes(source_names[idx], environ) :
        /\ o.raised
        /\ calls' = Append(calls, [name |-> source_names[idx],
                                   queries |-> adapter_queries(source_names[idx], queries),
                                   raised |-> TRUE, posts |-> <<>>, http |-> o.http])
        /\ http_calls' = http_calls + o.http
    /\ stderr' = Append(stderr, [kind |-> "source_failed", name |-> source_names[idx]])
    /\ pc' = "exit"
    /\ UNCHANGED <<source_names, queries, environ, idx, all_posts, posts_json>>
    /\ UNCHANGED notOrch

AdapterRaises ==
    /\ pc = "loop"
    /\ idx <= Len(source_names)
    /\ source_names[idx] \in DOMAIN ADAPTERS
    /\ \E o \in FetchOutcomes(source_names[idx], environ) :
        /\ o.raised
        /\ calls' = Append(calls, [name |-> source_names[idx],
                                   queries |-> adapter_queries(source_names[idx], queries),
                                   raised |-> TRUE, posts |-> <<>>, http |-> o.http])
        /\ http_calls' = http_calls + o.http
    /\ stderr' = Append(stderr, [kind |-> "source_failed", name |-> source_names[idx]])
    /\ idx' = idx + 1
    /\ UNCHANGED <<source_names, queries, environ, all_posts, pc, posts_json>>
    /\ UNCHANGED notOrch

\* line 66: return all_posts
Return ==
    /\ pc = "loop"
    /\ idx > Len(source_names)
    /\ pc' = "returned"
    /\ UNCHANGED <<source_names, queries, environ, idx, all_posts, calls,
                   http_calls, stderr, posts_json>>
    /\ UNCHANGED notOrch

\* posts_to_json (pulled_at, the clock reading, is left out)
posts_to_json(posts, topic) ==
    [topic |-> topic, total_posts |-> Len(posts), posts |-> posts]

\* main, line 168: posts_json = posts_to_json(posts, topic or "local AI")
Serialize ==
    /\ pc = "returned"
    /\ posts_json' = posts_to_json(all_posts, "local AI")
    /\ pc' = "serialized"
    /\ UNCHANGED <<source_names, queries, environ, idx, all_posts, calls,
                   http_calls, stderr>>
    /\ UNCHANGED notOrch

OrchNext ==
    \/ UnknownSource
    \/ AdapterReturns
    \/ AdapterRaises
    \/ Return
    \/ Serialize

SpecOrch == OrchInit /\ [][OrchNext]_vars

\* ================================================ one adapter's fetch call

\* the clock reading of the run, in hours (datetime.now(timezone.utc))
Now == 100

Cutoff(lookback_hours) == Now - lookback_hours

AdapterNames == {AdapterClasses[c] : c \in DOMAIN AdapterClasses}

Min(a, b) == IF a < b THEN a ELSE b

\* ---- inputs
Lookbacks == {12, 24}
MaxResultsInputs == {1, 2}
ItemIds == {1, 2}
\* HackerNews numbers stories and comments from one sequence: a comment never
\* has the objectID of a story
CommentIds == {3, 4}
ItemAges == {1, 20}

\* the arguments of fetch, with the query plan's sizes in place of its strings:
\* terms search terms, base_models detected base models (CivitAI), tags and
\* keywords extracted from the terms (Lobsters)
FetchInputs(a) ==
    [terms : 1..MaxTerms, lookback_hours : Lookbacks, max_results : MaxResultsInputs,
     env : IF a = "x" THEN EnvironInputs ELSE {{}},
     base_models : IF a = "civitai" THEN {0, 1} ELSE {0},
     tags : IF a = "lobsters" THEN 0..MaxTerms ELSE {0},
     keywords : IF a = "lobsters" THEN BOOLEAN ELSE {FALSE}]

\* ---- reddit.py / civitai.py: the server-side period

\* TIME_FILTER_MAP and PERIOD_MAP: threshold in hours -> label
TIME_FILTER_MAP == <<[threshold |-> 24, label |-> "day"],
                     [threshold |-> 168, label |-> "week"],
                     [threshold |-> 720, label |-> "month"]>>

\* a search that passes over a threshold equal to the lookback
RECURSIVE FirstFit_strict(_, _, _)
FirstFit_strict(map, h, default) ==
    IF map = <<>> THEN default
    ELSE IF h < Head(map).threshold THEN Head(map).label
    ELSE FirstFit_strict(Tail(map), h, default)

RECURSIVE FirstFit(_, _, _)
FirstFit(map, h, default) ==
    IF map = <<>> THEN default
    ELSE IF h <= Head(map).threshold THEN Head(map).label
    ELSE FirstFit(Tail(map), h, default)

\* _time_filter (reddit.py) and _period_filter (civitai.py), the labels of the
\* latter in lower case
_time_filter(lookback_hours) == FirstFit(TIME_FILTER_MAP, lookback_hours, "month")

\* the hours a period label stands for on the server
PeriodHours(label) ==
    CASE label = "day" -> 24 [] label = "week" -> 168 [] label = "month" -> 720

\* cutoff[:10] of github.py: the cutoff cut to its date
DayFloor(t) == (t \div 24) * 24

\* ---- the requests of one fetch

\* the oldest creation time the request asks the server for, if it asks
SinceParam(a, kind, h) ==
    CASE a \in {"x", "bluesky"} -> Some(Cutoff(h))
      [] a = "hackernews" -> Some(Cutoff(h) + 1)
      [] a \in {"reddit", "civitai"} -> Some(Now - PeriodHours(_time_filter(h)))
      [] a = "github" -> Some(DayFloor(Cutoff(h)))
      [] OTHER -> Absent

\* the result count passed on as it came
LimitParam_unclamped(a, kind, max_results) == Some(max_results)

\* the result-count parameter of the request, if it has one
LimitParam(a, kind, max_results) ==
    CASE a \in {"x", "reddit", "bluesky"} -> Some(Min(max_results, 100))
      [] a = "arxiv" -> Some(Min(max_results, 20))
      [] a = "civitai" -> Some(Min(max_results, 20))
      [] a = "github" -> Some(Min(max_results, 30))
      [] a = "hackernews" -> Some(IF kind = "comment" THEN 50 ELSE 20)
      [] a = "huggingface" /\ kind \in {"models", "daily"} -> Some(Min(max_results, 50))
      [] OTHER -> Absent

Req(a, in, kind, term, page) ==
    [kind |-> kind, term |-> term, page |-> page,
     since |-> SinceParam(a, kind, in.lookback_hours),
     limit |-> LimitParam(a, kind, in.max_results)]

\* a loop over the terms that runs once more than there are terms
PerTerm_extra(a, in, kind) == [i \in 1..(in.terms + 1) |-> Req(a, in, kind, i, 1)]

PerTerm(a, in, kind) == [i \in 1..in.terms |-> Req(a, in, kind, i, 1)]

\* the requests fetch issues when nothing stops it, in order
Plan(a, in) ==
    CASE a = "x" -> PerTerm(a, in, "search")
      [] a = "reddit" ->
            PerTerm(a, in, "search_all")
            \o [i \in 1..NumDefaultSubreddits |-> Req(a, in, "search_subreddit", 1, i)]
      [] a = "arxiv" -> PerTerm(a, in, "search")
      [] a = "bluesky" -> PerTerm(a, in, "search")
      [] a = "github" -> PerTerm(a, in, "repos") \o PerTerm(a, in, "issues")
      [] a = "civitai" ->
            PerTerm(a, in, "models")
            \o [i \in 1..in.base_models |-> Req(a, in, "base_model", 1, i)]
      [] a = "huggingface" ->
            PerTerm(a, in, "models") \o PerTerm(a, in, "papers")
            \o <<Req(a, in, "daily", 0, 1)>>
      [] a = "hackernews" ->
            Flatten([i \in 1..in.terms |->
                <<Req(a, in, "story", i, 1), Req(a, in, "recent", i, 1),
                  Req(a, in, "comment", i, 1)>>])
      [] a = "lobsters" ->
            Flatten([t \in 1..in.tags |->
                [p \in 1..TagPages |-> Req(a, in, "tag", t, p)]])
            \o (IF in.keywords
                THEN [p \in 1..NewestPages |-> Req(a, in, "newest", 0, p)]
                ELSE <<>>)

\* ---- what the servers answer

\* an item of a response: the native id its url is built from, its creation
\* time if it carries one, whether it lacks the shape the mapper dereferences,
\* and (Lobsters' newest scan) whether its text holds a keyword
BadItem == [id |-> 0, ts |-> Absent, bad |-> TRUE, kw |-> TRUE]

\* an empty objectID
EmptyId == 0

GoodItems(kws, ids) ==
    [id : ids, ts : {Some(Now - g) : g \in ItemAges} \cup {Absent},
     bad : {FALSE}, kw : kws]

\* A request either fails (network error, timeout, non-2xx), or brings a JSON
\* value of the wrong container type, or a list of items. A server that is
\* sent a time window or a result count honours it.
Responses(req) ==
    LET kws == IF req.kind = "newest" THEN BOOLEAN ELSE {TRUE}
        ids == IF req.kind = "comment" THEN CommentIds ELSE ItemIds
        visible == {it \in GoodItems(kws, ids) :
                       (req.since # Absent /\ it.ts # Absent) => it.ts[1] >= req.since[1]}
                   \cup {BadItem}
        n == IF req.limit = Absent THEN MaxItems ELSE Min(req.limit[1], MaxItems)
    IN  {[kind |-> k, items |-> <<>>] : k \in {"fail", "wrong"}}
        \cup {[kind |-> "ok", items |-> its] : its \in SeqsUpTo(visible, n)}

\* ---- field mapping

\* the url a mapper builds from an item (the papers of HuggingFace live under
\* papers/, everything else under the item's own id)
Url(a, kind, it) ==
    [ns |-> IF a = "huggingface" /\ kind # "models" THEN "papers/" ELSE "", id |-> it.id]

\* the timestamp a mapper gives an item: its own, or for one without: the
\* current time (github, civitai, huggingface), the epoch (reddit's
\* created_utc default 0), or the empty string
TimestampAt(a, it, now) ==
    IF it.ts # Absent THEN it.ts
    ELSE IF a \in {"github", "civitai", "huggingface"} THEN Some(now)
    ELSE IF a = "reddit" THEN Some(0)
    ELSE Absent

Timestamp(a, it) == TimestampAt(a, it, Now)

ToPost(a, kind, it) ==
    [source |-> a, url |-> Url(a, kind, it), timestamp |-> Timestamp(a, it)]

\* what fetch looks up in its seen set: the url, CivitAI's model_id, or
\* HackerNews' objectID ("comment-" + objectID for a comment hit)
SeenKey(a, kind, it) ==
    IF a = "hackernews"
    THEN [ns |-> IF kind = "comment" THEN "comment-" ELSE "", id |-> it.id]
    ELSE Url(a, kind, it)

\* HuggingFace's paper searches skip what is older than the cutoff; a
\* HackerNews hit with an empty objectID gives no Post (the story loop tests
\* oid, _comment_to_post returns None) and leaves the seen set alone
ClientKeeps(a, kind, in, it) ==
    /\ ~(/\ a = "huggingface" /\ kind \in {"papers", "daily"}
         /\ it.ts # Absent /\ it.ts[1] < Cutoff(in.lookback_hours))
    /\ ~(a = "hackernews" /\ it.id = EmptyId /\ ~it.bad)

\* Whether mapping the payload raises. A failed request never does: each _get
\* catches it and hands an empty value on. A value of the wrong container type
\* makes data.get / the iteration raise, except where it is caught or tested
\* (arxiv's ParseError, hackernews' try, huggingface's isinstance). An item
\* without the shape the mapper dereferences (u["id"] in x, fromtimestamp(None)
\* in reddit, owner/creator/author = null, created_at_i of the wrong type)
\* raises in every mapper but arxiv's.
MappingRaises(a, resp) ==
    CASE resp.kind = "fail" -> FALSE
      [] resp.kind = "wrong" ->
            a \in {"x", "reddit", "github", "civitai", "bluesky", "lobsters"}
      [] OTHER -> a # "arxiv" /\ \E i \in DOMAIN resp.items : resp.items[i].bad

\* the [post, key] pairs a non-raising payload maps to, in order
Mapped(a, req, resp, in) ==
    LET kept == SelectSeq(resp.items, LAMBDA it : ClientKeeps(a, req.kind, in, it))
    IN  [i \in DOMAIN kept |->
            [post |-> ToPost(a, req.kind, kept[i]), key |-> SeenKey(a, req.kind, kept[i])]]

\* a merge loop that appends without looking into the seen set
DedupAppend_unseen(posts, seen, entries) ==
    [posts |-> posts \o [i \in DOMAIN entries |-> entries[i].post],
     seen |-> seen \cup {entries[i].key : i \in DOMAIN entries}]

\* for post in results: if key not in seen: seen.add(key); posts.append(post)
RECURSIVE DedupAppend(_, _, _)
DedupAppend(posts, seen, entries) ==
    IF entries = <<>> THEN [posts |-> posts, seen |-> seen]
    ELSE IF Head(entries).key \in seen
         THEN DedupAppend(posts, seen, Tail(entries))
         ELSE DedupAppend(Append(posts, Head(entries).post),
                          seen \cup {Head(entries).key}, Tail(entries))

\* XAdapter.fetch: posts.extend(self._normalize(result)), no seen set
ExtendOnly(posts, seen, entries) ==
    [posts |-> posts \o [i \in DOMAIN entries |-> entries[i].post], seen |-> seen]

Merge(a, posts, seen, entries) ==
    IF a = "x" THEN ExtendOnly(posts, seen, entries) ELSE DedupAppend(posts, seen, entries)

Prefix(s, n) == SubSeq(s, 1, Min(n, Len(s)))

\* ---- lobsters.py

\* a scan that skips a story older than the cutoff and goes on
RECURSIVE LobstersScan_skip(_, _, _, _)
LobstersScan_skip(stories, cutoff, kind, acc) ==
    IF stories = <<>> THEN [posts |-> acc, hit_cutoff |-> FALSE, raise |-> FALSE]
    ELSE LET s == Head(stories) IN
         IF s.bad \/ s.ts = Absent
         THEN [posts |-> acc, hit_cutoff |-> FALSE, raise |-> TRUE]
         ELSE LobstersScan_skip(Tail(stories), cutoff, kind,
                                IF s.ts[1] >= cutoff /\ (kind = "tag" \/ s.kw)
                                THEN Append(acc, [post |-> ToPost("lobsters", kind, s),
                                                  key |-> Url("lobsters", kind, s)])
                                ELSE acc)

\* _normalize and the loop body of _fetch_newest_filtered: stories in order,
\* stop at the first one older than the cutoff; a story without created_at
\* makes _parse_timestamp raise; the newest scan keeps only keyword matches
RECURSIVE LobstersScan(_, _, _, _)
LobstersScan(stories, cutoff, kind, acc) ==
    IF stories = <<>> THEN [posts |-> acc, hit_cutoff |-> FALSE, raise |-> FALSE]
    ELSE LET s == Head(stories) IN
         IF s.bad \/ s.ts = Absent
         THEN [posts |-> acc, hit_cutoff |-> FALSE, raise |-> TRUE]
         ELSE IF s.ts[1] < cutoff
         THEN [posts |-> acc, hit_cutoff |-> TRUE, raise |-> FALSE]
         ELSE LobstersScan(Tail(stories), cutoff, kind,
                           IF kind = "tag" \/ s.kw
                           THEN Append(acc, [post |-> ToPost("lobsters", kind, s),
                                             key |-> Url("lobsters", kind, s)])
                           ELSE acc)

\* a page that holds a story older than the cutoff
OldOnPage(resp, cutoff) ==
    /\ resp.kind = "ok"
    /\ \E i \in DOMAIN resp.items :
          resp.items[i].ts # Absent /\ resp.items[i].ts[1] < cutoff

LastPage(req) == req.page = (IF req.kind = "tag" THEN TagPages ELSE NewestPages)

\* the requests left once the page loop of this tag (or of the scan) is left
LeaveGroup(plan, req) ==
    SelectSeq(plan, LAMBDA r : ~(r.kind = req.kind /\ r.term = req.term))

\* the same request again after a failure
Advance_retry(plan, resp) == IF resp.kind = "fail" THEN plan ELSE Tail(plan)

\* the for loop of fetch moves on to its next request whatever came back: the
\* _get functions hand a failure on as an empty value
Advance(plan, resp) == Tail(plan)

\* ---- the steps of one fetch call

FetchInit ==
    /\ f_adapter \in AdapterNames
    /\ f_in \in FetchInputs(f_adapter)
    /\ f_pc = IF f_adapter = "x" THEN "start" ELSE "run"
    /\ f_plan = Plan(f_adapter, f_in)
    /\ f_requests = <<>> /\ f_posts = <<>> /\ f_seen = {} /\ f_local = <<>>
    /\ f_pending = FALSE /\ f_events = {} /\ f_warnings = {} /\ f_cut = {}
    /\ f_cause = "none" /\ f_result = <<>>
    /\ OthersIdle({"fetch"})

\* the credential exchange of _get_bearer_token, as a request of the log
TokenReq == [kind |-> "oauth2_token", term |-> 0, page |-> 1, since |-> Absent, limit |-> Absent]

\* what went wrong with response resp of adapter a: the request failed, or its
\* payload is malformed (the wrong container type, an item without the shape the
\* mapper dereferences, a Lobsters story without created_at)
EventsOf(a, resp) ==
    IF resp.kind = "fail" THEN {"fail"}
    ELSE IF \/ resp.kind = "wrong"
            \/ \E i \in DOMAIN resp.items :
                  resp.items[i].bad \/ (a = "lobsters" /\ resp.items[i].ts = Absent)
    THEN {"malformed"}
    ELSE {}

\* the warning each adapter prints when a request fails (_reddit_get,
\* _arxiv_get, _github_get, _civitai_get, _bsky_get, _hf_get, _lobsters_get,
\* HackerNewsAdapter._search); XAdapter._search prints none
FailureWarning ==
    [reddit |-> "Reddit request failed", arxiv |-> "Arxiv request failed",
     github |-> "GitHub request failed", civitai |-> "CivitAI request failed",
     bluesky |-> "Bluesky request failed", huggingface |-> "HuggingFace request failed",
     lobsters |-> "Lobsters request failed", hackernews |-> "HN API error"]

\* what adapter a prints to sys.stderr about response resp: the warning of its
\* except clause around urlopen; HackerNews' try also covers data.get("hits")
\* on a payload of the wrong type, and Arxiv's _parse warns of unparsable XML
Warnings(a, resp) ==
    CASE resp.kind = "fail" -> IF a \in DOMAIN FailureWarning THEN {FailureWarning[a]} ELSE {}
      [] resp.kind = "wrong" /\ a = "hackernews" -> {FailureWarning[a]}
      [] resp.kind = "wrong" /\ a = "arxiv" -> {"Arxiv XML parse error"}
      [] OTHER -> {}

\* x.py 46-48: bearer_token = _get_bearer_token(); raise RuntimeError without one
XToken ==
    /\ f_pc = "start"
    /\ \E t \in _get_bearer_token(f_in.env) :
        /\ f_requests' = IF t.http = 1 THEN Append(f_requests, TokenReq) ELSE f_requests
        /\ f_pc' = IF t.token = "token" THEN "run" ELSE "raised"
        /\ f_cause' = CASE t.token = "token" -> f_cause
                        [] t.token = "empty" -> "credentials"
                        [] t.token = "raise" -> "request_failed"
        /\ f_events' = IF t.token = "raise"
                       THEN f_events \cup {"fail"} ELSE f_events
    /\ UNCHANGED <<f_adapter, f_in, f_plan, f_posts, f_seen, f_local, f_pending, f_result,
                   f_warnings, f_cut>>
    /\ UNCHANGED notFetch

\* One iteration of a term loop of x, reddit, arxiv, github, civitai, bluesky
\* or huggingface: the request, the mapping of its payload, the merge into posts
Request ==
    /\ f_pc = "run"
    /\ f_plan # <<>>
    /\ f_adapter \notin {"hackernews", "lobsters"}
    /\ LET req == Head(f_plan) IN
       \E resp \in Responses(req) :
        /\ f_requests' = Append(f_requests, req)
        /\ f_plan' = Advance(f_plan, resp)
        /\ f_events' = f_events \cup EventsOf(f_adapter, resp)
        /\ f_warnings' = f_warnings \cup Warnings(f_adapter, resp)
        /\ UNCHANGED f_cut
        /\ IF MappingRaises(f_adapter, resp)
           THEN /\ f_pc' = "raised"
                /\ f_cause' = "payload"
                /\ UNCHANGED <<f_posts, f_seen>>
           ELSE LET m == Merge(f_adapter, f_posts, f_seen, Mapped(f_adapter, req, resp, f_in))
                IN  /\ f_posts' = m.posts
                    /\ f_seen' = m.seen
                    /\ UNCHANGED <<f_pc, f_cause>>
    /\ UNCHANGED <<f_adapter, f_in, f_local, f_pending, f_result>>
    /\ UNCHANGED notFetch

\* hackernews.py 35-60: the three searches of one query. _search never raises;
\* the merge loops run after the third search, the story hits of both searches
\* first, then the comment hits. The hits are merged here as they arrive, in
\* that same order, and a hit that makes the merge raise is remembered in
\* f_pending until the third search is back.
HNRequest ==
    /\ f_pc = "run"
    /\ f_plan # <<>>
    /\ f_adapter = "hackernews"
    /\ LET req == Head(f_plan) IN
       \E resp \in Responses(req) :
        LET hits == IF resp.kind = "ok" THEN resp ELSE [kind |-> "ok", items |-> <<>>]
            bad == MappingRaises(f_adapter, hits)
            m == DedupAppend(f_posts, f_seen, Mapped(f_adapter, req, hits, f_in))
            raises == req.kind = "comment" /\ (f_pending \/ bad)
        IN  /\ f_requests' = Append(f_requests, req)
            /\ f_plan' = Advance(f_plan, resp)
            /\ f_events' = f_events \cup EventsOf(f_adapter, resp)
            /\ f_warnings' = f_warnings \cup Warnings(f_adapter, resp)
            /\ UNCHANGED f_cut
            /\ f_pending' = (req.kind # "comment" /\ (f_pending \/ bad))
            /\ f_pc' = IF raises THEN "raised" ELSE f_pc
            /\ f_cause' = IF raises THEN "payload" ELSE f_cause
            /\ f_posts' = IF f_pending \/ bad THEN f_posts ELSE m.posts
            /\ f_seen' = IF f_pending \/ bad THEN f_seen ELSE m.seen
    /\ UNCHANGED <<f_adapter, f_in, f_local, f_result>>
    /\ UNCHANGED notFetch

\* lobsters.py 66-82 with _fetch_by_tag and _fetch_newest_filtered: one page of
\* a tag or of the newest scan. The page loop is left on a failed or empty
\* page, on a story older than the cutoff, with max_results posts, or after the
\* last page; fetch then merges the first max_results local posts.
LobstersRequest ==
    /\ f_pc = "run"
    /\ f_plan # <<>>
    /\ f_adapter = "lobsters"
    /\ LET req == Head(f_plan) IN
       \E resp \in Responses(req) :
        LET scan == LobstersScan(resp.items, Cutoff(f_in.lookback_hours), req.kind, <<>>)
            local == f_local \o scan.posts
            empty == resp.kind = "fail" \/ (resp.kind = "ok" /\ resp.items = <<>>)
            raises == resp.kind = "wrong" \/ (~empty /\ scan.raise)
            leave == \/ empty \/ scan.hit_cutoff
                     \/ Len(local) >= f_in.max_results \/ LastPage(req)
            m == DedupAppend(f_posts, f_seen, Prefix(local, f_in.max_results))
        IN  /\ f_requests' = Append(f_requests, req)
            /\ f_events' = f_events \cup EventsOf(f_adapter, resp)
            /\ f_warnings' = f_warnings \cup Warnings(f_adapter, resp)
            /\ f_cut' = IF OldOnPage(resp, Cutoff(f_in.lookback_hours))
                        THEN f_cut \cup {req} ELSE f_cut
            /\ IF raises
               THEN /\ f_pc' = "raised"
                    /\ f_cause' = "payload"
                    /\ f_plan' = Tail(f_plan)
                    /\ UNCHANGED <<f_posts, f_seen, f_local>>
               ELSE IF leave
               THEN /\ f_posts' = m.posts
                    /\ f_seen' = m.seen
                    /\ f_local' = <<>>
                    /\ f_plan' = LeaveGroup(f_plan, req)
                    /\ UNCHANGED <<f_pc, f_cause>>
               ELSE /\ f_local' = local
                    /\ f_plan' = Tail(f_plan)
                    /\ UNCHANGED <<f_posts, f_seen, f_pc, f_cause>>
    /\ UNCHANGED <<f_adapter, f_in, f_pending, f_result>>
    /\ UNCHANGED notFetch

\* return posts (hackernews: return posts[:max_results])
FetchReturn ==
    /\ f_pc = "run"
    /\ f_plan = <<>>
    /\ f_result' = IF f_adapter = "hackernews"
                   THEN Prefix(f_posts, f_in.max_results) ELSE f_posts
    /\ f_pc' = "returned"
    /\ UNCHANGED <<f_adapter, f_in, f_plan, f_requests, f_posts, f_seen, f_local,
                   f_pending, f_events, f_warnings, f_cut, f_cause>>
    /\ UNCHANGED notFetch

FetchNext ==
    \/ XToken
    \/ Request
    \/ HNRequest
    \/ LobstersRequest
    \/ FetchReturn

SpecFetch == FetchInit /\ [][FetchNext]_vars

\* every HTTP call returns or fails, and the interpreter runs on: a step of
\* the call that can be taken is taken
SpecFetchFair == SpecFetch /\ WF_vars(FetchNext)

\* ============================================ the request clock of an adapter

\* Time is counted in ticks of half a second, so that 6.5 s is a whole number.

\* _MIN_REQUEST_INTERVAL of each module that has a _rate_limit
reddit_MIN_REQUEST_INTERVAL == 13
lobsters_MIN_REQUEST_INTERVAL == 4
github_MIN_REQUEST_INTERVAL == 14
civitai_MIN_REQUEST_INTERVAL == 2
huggingface_MIN_REQUEST_INTERVAL == 2
bluesky_MIN_REQUEST_INTERVAL == 2

\* the adapters whose _get calls _rate_limit() first, with their interval;
\* x.py, arxiv.py and hackernews.py have neither
_MIN_REQUEST_INTERVAL ==
    [reddit |-> reddit_MIN_REQUEST_INTERVAL,
     lobsters |-> lobsters_MIN_REQUEST_INTERVAL,
     github |-> github_MIN_REQUEST_INTERVAL,
     civitai |-> civitai_MIN_REQUEST_INTERVAL,
     huggingface |-> huggingface_MIN_REQUEST_INTERVAL,
     bluesky |-> bluesky_MIN_REQUEST_INTERVAL]

RateLimited == DOMAIN _MIN_REQUEST_INTERVAL

\* most requests of one fetch, longest request, longest oversleep of
\* time.sleep, latest clock reading at the first request (all in ticks)
MaxRequests == 3
MaxDuration == 2
MaxOversleep == 1
MaxStartClock == 3

RateInit ==
    /\ r_adapter \in AdapterNames
    /\ r_now \in 0..MaxStartClock
    /\ r_last = 0
    /\ r_starts = <<>>
    /\ r_left \in 1..MaxRequests
    /\ r_pc = "call"
    /\ OthersIdle({"rate"})

\* _rate_limit(): now = time.monotonic(); elapsed = now - _last_request_time;
\* sleep the rest of the interval if elapsed is less; _last_request_time =
\* time.monotonic(). time.sleep may return late, never early.
_rate_limit ==
    /\ r_pc = "call"
    /\ r_left > 0
    /\ r_adapter \in RateLimited
    /\ LET elapsed == r_now - r_last
           interval == _MIN_REQUEST_INTERVAL[r_adapter]
       IN  IF elapsed < interval
           THEN \E late \in 0..MaxOversleep :
                    r_now' = r_now + (interval - elapsed) + late
           ELSE r_now' = r_now
    /\ r_last' = r_now'
    /\ r_pc' = "send"
    /\ UNCHANGED <<r_adapter, r_starts, r_left>>
    /\ UNCHANGED notRate

\* urlopen(req): the request starts, and the call is back after its duration.
\* An adapter without _rate_limit gets here straight from its loop.
urlopen ==
    /\ r_left > 0
    /\ r_pc = (IF r_adapter \in RateLimited THEN "send" ELSE "call")
    /\ r_starts' = Append(r_starts, r_now)
    /\ \E duration \in 0..MaxDuration : r_now' = r_now + duration
    /\ r_left' = r_left - 1
    /\ r_pc' = IF r_left = 1 THEN "done" ELSE "call"
    /\ UNCHANGED <<r_adapter, r_last>>
    /\ UNCHANGED notRate

RateNext ==
    \/ _rate_limit
    \/ urlopen

SpecRate == RateInit /\ [][RateNext]_vars

\* ========================================= the query plan of one fetch call

\* A topic string is the sequence of its comma-separated segments, a segment (and
\* a search term) the sequence of its whitespace-separated words, all in lower
\* case. Words are told apart as wholes: "keyword in topic_lower" is whether
\* the keyword is a word of the topic.

\* the vocabulary, in sorted order, and the length of each word
Vocabulary == <<",", "agents", "ai", "flux", "lora", "sdxl">>

WordLen == [w \in Range(Vocabulary) |->
               CASE w = "," -> 1 [] w = "ai" -> 2 [] w = "agents" -> 6 [] OTHER -> 4]

\* most segments of a topic
MaxSegments == 2

Segments == {<<>>, <<"lora">>, <<"flux">>, <<"ai", "agents">>, <<"sdxl", "lora">>}

TopicInputs == SeqsUpTo(Segments, MaxSegments)

\* queries: None, the empty list, or a list of queries
PlanQueryInputs ==
    {Absent, Some(<<>>), Some(<<<<"agents">>>>), Some(<<<<"ai", "agents">>, <<"flux">>>>)}

\* if queries: (neither None nor empty)
Truthy(qs) == qs # Absent /\ qs[1] # <<>>

\* a topic without any term, as the one term [topic]: its commas
Raw(topic) == [i \in 1..(Len(topic) - 1) |-> ","]

RECURSIVE Dedupe(_, _)
Dedupe(s, acc) ==
    IF s = <<>> THEN acc
    ELSE Dedupe(Tail(s), IF Head(s) \in Range(acc) THEN acc ELSE Append(acc, Head(s)))

\* [t.strip() for t in topic.split(",") if t.strip()]
SplitCommas(topic) == SelectSeq(topic, LAMBDA seg : seg # <<>>)

\* _build_search_terms of every adapter but x (hackernews: fetch, lines 29-30):
\* the queries if there are any, else the segments of the topic, else [topic].
\* HuggingFace's also splits a segment of several words and drops repeats.
_build_search_terms(a, topic, qs) ==
    IF Truthy(qs) THEN qs[1]
    ELSE LET raw == SplitCommas(topic)
             terms == IF a = "huggingface"
                      THEN Flatten([i \in DOMAIN raw |->
                               IF Len(raw[i]) > 1
                               THEN [j \in DOMAIN raw[i] |-> <<raw[i][j]>>]
                               ELSE <<raw[i]>>])
                      ELSE raw
             some == IF terms = <<>> THEN <<Raw(topic)>> ELSE terms
         IN  IF a = "huggingface" THEN Dedupe(some, <<>>) ELSE some

TopicWords(topic) == UNION {Range(topic[i]) : i \in DOMAIN topic}

\* civitai.py TYPE_KEYWORDS and BASE_MODEL_KEYWORDS, their one-word keywords
TYPE_KEYWORDS ==
    <<[keyword |-> "lora", value |-> "LORA"],
      [keyword |-> "checkpoint", value |-> "Checkpoint"],
      [keyword |-> "embedding", value |-> "TextualInversion"],
      [keyword |-> "hypernetwork", value |-> "Hypernetwork"],
      [keyword |-> "controlnet", value |-> "Controlnet"],
      [keyword |-> "upscaler", value |-> "Upscaler"]>>

BASE_MODEL_KEYWORDS ==
    <<[keyword |-> "sdxl", value |-> "SDXL 1.0"],
      [keyword |-> "sd1.5", value |-> "SD 1.5"],
      [keyword |-> "sd15", value |-> "SD 1.5"],
      [keyword |-> "pony", value |-> "Pony"],
      [keyword |-> "ponyxl", value |-> "Pony"],
      [keyword |-> "ponydiffusion", value |-> "Pony"],
      [keyword |-> "illustrious", value |-> "Illustrious"],
      [keyword |-> "flux", value |-> "Flux.1 D"],
      [keyword |-> "chroma", value |-> "Chroma"]>>

\* the type of the first keyword the topic mentions, or None
_detect_type_filter(topic) ==
    LET hits == SelectSeq(TYPE_KEYWORDS, LAMBDA e : e.keyword \in TopicWords(topic))
    IN  IF hits = <<>> THEN Absent ELSE Some(Head(hits).value)

\* the base models of the keywords the topic mentions, each once, in map order
_detect_base_models(topic) ==
    LET hits == SelectSeq(BASE_MODEL_KEYWORDS, LAMBDA e : e.keyword \in TopicWords(topic))
    IN  Dedupe([i \in DOMAIN hits |-> hits[i].value], <<>>)

TermWords(terms) == UNION {Range(terms[i]) : i \in DOMAIN terms}

\* lobsters.py: the sorted set of the alphanumeric words of the terms with two
\* letters or more (none of its stop words is in the vocabulary)
_extract_tags(terms) ==
    SelectSeq(Vocabulary,
              LAMBDA w : w \in TermWords(terms) /\ w # "," /\ WordLen[w] >= 2)

\* the words of the terms with three letters or more, in order
_extract_keywords(terms) ==
    SelectSeq(Flatten(terms), LAMBDA w : w # "," /\ WordLen[w] >= 3)

\* reddit.py DEFAULT_SUBREDDITS
DEFAULT_SUBREDDITS == <<"StableDiffusion", "LocalLLaMA", "comfyui", "sdforall">>

\* what a request is built from: its endpoint, its query and its filters
Head_(endpoint, query, types, baseModels) ==
    [endpoint |-> endpoint, query |-> query, types |-> types, baseModels |-> baseModels]

Each(terms, endpoint, types) ==
    [i \in DOMAIN terms |-> Head_(endpoint, terms[i], types, Absent)]

\* the requests fetch builds from its search terms, in order
QueryPlan(a, topic, qs) ==
    LET terms == _build_search_terms(a, topic, qs) IN
    CASE a = "reddit" ->
            Each(terms, "search", Absent)
            \o [i \in DOMAIN DEFAULT_SUBREDDITS |->
                   Head_(DEFAULT_SUBREDDITS[i], terms[1], Absent, Absent)]
      [] a = "github" -> Each(terms, "repositories", Absent) \o Each(terms, "issues", Absent)
      [] a = "civitai" ->
            LET type_filter == _detect_type_filter(topic)
                base_model_hints == _detect_base_models(topic)
            IN  Each(terms, "models", type_filter)
                \o [i \in DOMAIN base_model_hints |->
                       Head_("models", terms[1], type_filter, Some(base_model_hints[i]))]
      [] a = "huggingface" ->
            Each(terms, "models", Absent) \o Each(terms, "papers/search", Absent)
            \o <<Head_("daily_papers", <<>>, Absent, Absent)>>
      [] a = "hackernews" ->
            Flatten([i \in DOMAIN terms |->
                <<Head_("search story", terms[i], Absent, Absent),
                  Head_("search_by_date story", terms[i], Absent, Absent),
                  Head_("search comment", terms[i], Absent, Absent)>>])
      [] a = "lobsters" ->
            LET tags == _extract_tags(terms) IN
            [i \in DOMAIN tags |-> Head_("t", <<tags[i]>>, Absent, Absent)]
            \o (IF _extract_keywords(terms) # <<>>
                THEN <<Head_("newest", <<>>, Absent, Absent)>> ELSE <<>>)
      [] OTHER -> Each(terms, "search", Absent)

\* max_results below, at and above the hard cap of each API
PlanMaxResults == {1, 20, 21, 31, 51, 101}

\* the kind of request (as LimitParam tells them apart) behind an endpoint
RequestKind(endpoint) ==
    CASE endpoint = "search comment" -> "comment"
      [] endpoint = "daily_papers" -> "daily"
      [] OTHER -> endpoint

\* x builds its queries from the topic with queries.build_topic_queries, which
\* is no part of these sources: x is planned with explicit queries only
PlanInit ==
    /\ p_adapter \in AdapterNames
    /\ p_topic \in TopicInputs
    /\ p_queries \in PlanQueryInputs
    /\ p_adapter = "x" => Truthy(p_queries)
    /\ p_max_results \in PlanMaxResults
    /\ p_terms = <<>> /\ p_todo = <<>> /\ p_out = <<>> /\ p_limits = <<>>
    /\ p_pc = "start"
    /\ OthersIdle({"plan"})

\* the head of fetch: search_terms and the filters, before the first request
BuildTerms ==
    /\ p_pc = "start"
    /\ p_terms' = _build_search_terms(p_adapter, p_topic, p_queries)
    /\ p_todo' = QueryPlan(p_adapter, p_topic, p_queries)
    /\ p_pc' = "loop"
    /\ UNCHANGED <<p_adapter, p_topic, p_queries, p_out, p_max_results, p_limits>>
    /\ UNCHANGED notPlan

\* one request of the loops
BuildRequest ==
    /\ p_pc = "loop"
    /\ p_todo # <<>>
    /\ p_out' = Append(p_out, Head(p_todo))
    /\ p_limits' = Append(p_limits, LimitParam(p_adapter, RequestKind(Head(p_todo).endpoint),
                                               p_max_results))
    /\ p_todo' = Tail(p_todo)
    /\ UNCHANGED <<p_adapter, p_topic, p_queries, p_terms, p_max_results, p_pc>>
    /\ UNCHANGED notPlan

PlanReturn ==
    /\ p_pc = "loop"
    /\ p_todo = <<>>
    /\ p_pc' = "done"
    /\ UNCHANGED <<p_adapter, p_topic, p_queries, p_terms, p_todo, p_out,
                   p_max_results, p_limits>>
    /\ UNCHANGED notPlan

PlanNext ==
    \/ BuildTerms
    \/ BuildRequest
    \/ PlanReturn

SpecPlan == PlanInit /\ [][PlanNext]_vars

\* ================================================= the truncation of a body

\* A text is the sequence of its characters: a letter, a blank, a line break
\* and the two angle brackets of an HTML tag.
Chars == {"a", " ", "\n", "<", ">"}

IsSpace(c) == c \in {" ", "\n"}

\* max_len and the 500 of github.py, scaled down; the longest body
max_len == 3
MaxBody == 5

BodyInputs == SeqsUpTo(Chars, MaxBody)

Ellipsis == <<".", ".", ".">>

Max(S) == CHOOSE x \in S : \A y \in S : y <= x

MinOf(S) == CHOOSE x \in S : \A y \in S : x <= y

\* s.rsplit(" ", 1)[0]: s up to its last blank, all of s without one
rsplit_blank(s) ==
    LET blanks == {i \in DOMAIN s : s[i] = " "}
    IN  IF blanks = {} THEN s ELSE SubSeq(s, 1, Max(blanks) - 1)

\* re.sub(r"\s+", " ", text) without leading blank
RECURSIVE CollapseSpace(_, _)
CollapseSpace(s, acc) ==
    IF s = <<>> THEN acc
    ELSE IF IsSpace(Head(s))
         THEN CollapseSpace(Tail(s),
                            IF acc = <<>> \/ acc[Len(acc)] = " " THEN acc ELSE Append(acc, " "))
         ELSE CollapseSpace(Tail(s), Append(acc, Head(s)))

\* " ".join(text.split()), and re.sub(r"\s+", " ", text).strip()
NormalizeSpace(s) ==
    LET c == CollapseSpace(s, <<>>)
    IN  IF c # <<>> /\ c[Len(c)] = " " THEN SubSeq(c, 1, Len(c) - 1) ELSE c

\* re.sub(r"<[^>]+>", " ", text)
RECURSIVE StripTags(_)
StripTags(s) ==
    IF s = <<>> THEN <<>>
    ELSE LET closes == {j \in 2..Len(s) : s[j] = ">"} IN
         IF Head(s) = "<" /\ closes # {} /\ MinOf(closes) >= 3
         THEN <<" ">> \o StripTags(SubSeq(s, MinOf(closes) + 1, Len(s)))
         ELSE <<Head(s)>> \o StripTags(Tail(s))

\* text[:max_len].rsplit(" ", 1)[0] + "..."
Cut(text) == rsplit_blank(SubSeq(text, 1, Min(max_len, Len(text)))) \o Ellipsis

\* github.py 189-191: if len(body) > 500: body = body[:500].rsplit(" ", 1)[0] + "..."
github_truncate(body) == IF Len(body) > max_len THEN Cut(body) ELSE body

\* huggingface.py _truncate
huggingface_truncate(text) ==
    IF text = <<>> THEN <<>>
    ELSE LET t == NormalizeSpace(text) IN IF Len(t) <= max_len THEN t ELSE Cut(t)

\* civitai.py _truncate
civitai_truncate(text) ==
    IF text = <<>> THEN <<>>
    ELSE LET t == NormalizeSpace(StripTags(text)) IN IF Len(t) <= max_len THEN t ELSE Cut(t)

\* arxiv.py 91-96: the abstract, stripped and collapsed, cut at ABSTRACT_MAX_CHARS
arxiv_snippet(summary) ==
    LET abstract == NormalizeSpace(summary)
        snippet == SubSeq(abstract, 1, Min(max_len, Len(abstract)))
    IN  IF Len(abstract) > max_len THEN snippet \o Ellipsis ELSE snippet

TruncInit ==
    /\ t_impl \in {"github", "huggingface", "civitai", "arxiv"}
    /\ t_body \in BodyInputs
    /\ t_out = <<>>
    /\ t_pc = "start"
    /\ OthersIdle({"trunc"})

\* the mapper truncates the body of the item
Truncate ==
    /\ t_pc = "start"
    /\ t_out' = CASE t_impl = "github" -> github_truncate(t_body)
                  [] t_impl = "huggingface" -> huggingface_truncate(t_body)
                  [] t_impl = "civitai" -> civitai_truncate(t_body)
                  [] t_impl = "arxiv" -> arxiv_snippet(t_body)
    /\ t_pc' = "done"
    /\ UNCHANGED <<t_impl, t_body>>
    /\ UNCHANGED notTrunc

TruncNext == Truncate

SpecTrunc == TruncInit /\ [][TruncNext]_vars

\* ======================= a run of fetch_posts against fixed API answers

\* fetch_posts runs RedditAdapter.fetch and ArxivAdapter.fetch, request by
\* request (the steps of SpecFetch), and every request of a source is answered
\* with the fixture of that source.

\* ages, in hours, inside and outside a lookback window of 24 hours
InsideAges == {1, 12, 23}
OutsideAges == {25, 48}

FixtureItem(id, age) == [id |-> id, ts |-> Some(Now - age), bad |-> FALSE, kw |-> TRUE]

\* Reddit answers 3 items, 2 inside the window and 1 older, in any order;
\* Arxiv answers 2 items inside the window
RedditFixtures ==
    {[i \in 1..3 |-> FixtureItem(i, IF i = old THEN o
                                     ELSE IF i = (IF old = 1 THEN 2 ELSE 1) THEN a ELSE b)] :
        old \in 1..3, o \in OutsideAges, a \in InsideAges, b \in InsideAges}

ArxivFixtures ==
    {<<FixtureItem(1, a), FixtureItem(2, b)>> : a \in InsideAges, b \in InsideAges}

\* fetch(topic, lookback_hours=LOOKBACK_HOURS, max_results=MAX_RESULTS_PER_QUERY,
\* queries=None) with a topic of one term
ScenarioIn ==
    [terms |-> 1, lookback_hours |-> 24, max_results |-> 20, env |-> {},
     base_models |-> 0, tags |-> 0, keywords |-> FALSE]

ScenarioInit ==
    /\ source_names = <<"reddit", "arxiv">>
    /\ queries = Absent
    /\ environ = {}
    /\ idx = 1
    /\ all_posts = <<>>
    /\ pc = "loop"
    /\ calls = <<>>
    /\ http_calls = 0
    /\ stderr = <<>>
    /\ posts_json = None
    /\ s_fixture \in [reddit : RedditFixtures, arxiv : ArxivFixtures]
    /\ OthersIdle({"orch", "scenario"})

\* scout.py 52-61: posts = adapter.fetch(...) is entered
ScenarioCall ==
    /\ pc = "loop"
    /\ idx <= Len(source_names)
    /\ f_pc = "idle"
    /\ f_adapter' = source_names[idx]
    /\ f_in' = ScenarioIn
    /\ f_pc' = "run"
    /\ f_plan' = Plan(source_names[idx], ScenarioIn)
    /\ UNCHANGED <<f_requests, f_posts, f_seen, f_local, f_pending, f_events,
                   f_warnings, f_cut, f_cause, f_result>>
    /\ UNCHANGED <<orchVars, rateVars, planVars, truncVars, scenarioVars, mapVars, limiterVars,
                   concVars, termsVars, windowVars, dedupVars>>

\* one iteration of the adapter's loop, answered with the fixture
ScenarioRequest ==
    /\ f_pc = "run"
    /\ f_plan # <<>>
    /\ LET req == Head(f_plan)
           resp == [kind |-> "ok", items |-> s_fixture[f_adapter]]
           m == Merge(f_adapter, f_posts, f_seen, Mapped(f_adapter, req, resp, f_in))
       IN  /\ f_requests' = Append(f_requests, req)
           /\ f_plan' = Tail(f_plan)
           /\ f_posts' = m.posts
           /\ f_seen' = m.seen
    /\ UNCHANGED <<f_adapter, f_in, f_pc, f_local, f_pending, f_events, f_warnings, f_cut, f_cause, f_result>>
    /\ UNCHANGED <<orchVars, rateVars, planVars, truncVars, scenarioVars, mapVars, limiterVars,
                   concVars, termsVars, windowVars, dedupVars>>

\* scout.py 62: all_posts.extend(posts), and on to the next source name
ScenarioHandOver ==
    /\ pc = "loop"
    /\ f_pc = "returned"
    /\ calls' = Append(calls, [name |-> f_adapter,
                               queries |-> adapter_queries(f_adapter, queries),
                               raised |-> FALSE, posts |-> f_result,
                               http |-> Len(f_requests)])
    /\ all_posts' = extend(all_posts, f_result)
    /\ http_calls' = http_calls + Len(f_requests)
    /\ idx' = idx + 1
    /\ f_adapter' = None /\ f_in' = None /\ f_pc' = "idle" /\ f_plan' = <<>>
    /\ f_requests' = <<>> /\ f_posts' = <<>> /\ f_seen' = {} /\ f_result' = <<>>
    /\ UNCHANGED <<f_local, f_pending, f_events, f_warnings, f_cut, f_cause>>
    /\ UNCHANGED <<source_names, queries, environ, pc, stderr, posts_json>>
    /\ UNCHANGED <<rateVars, planVars, truncVars, scenarioVars, mapVars, limiterVars, concVars,
                   termsVars, windowVars, dedupVars>>

ScenarioNext ==
    \/ ScenarioCall
    \/ ScenarioRequest
    \/ FetchReturn
    \/ ScenarioHandOver
    \/ Return
    \/ Serialize

SpecScenario == ScenarioInit /\ [][ScenarioNext]_vars

\* ============================================ the field mapping of a response

\* the mappers: _normalize of x, reddit, civitai, bluesky and lobsters, _parse of
\* arxiv, _hit_to_post and _comment_to_post of hackernews, _normalize_repos and
\* _normalize_issues of github, the loops of _search_models, _search_papers and
\* _fetch_daily_papers of huggingface
Mappers ==
    {<<"x", "search">>, <<"reddit", "search_all">>, <<"arxiv", "search">>,
     <<"hackernews", "story">>, <<"hackernews", "comment">>, <<"lobsters", "tag">>,
     <<"github", "repos">>, <<"github", "issues">>, <<"civitai", "models">>,
     <<"bluesky", "search">>, <<"huggingface", "models">>,
     <<"huggingface", "papers">>, <<"huggingface", "daily">>}

\* most items of the response
MaxMapItems == 2

\* the native counters of an item: absent, negative, positive
CounterInputs == {Absent, Some(0 - 2), Some(3)}

\* an item at position i of the response: its creation time (none, older than
\* the cutoff, inside the window) and the one or two counters its score is
\* made of
MapItems(i) ==
    [id : {i}, ts : {Absent, Some(Now - 30), Some(Now - 5)}, bad : {FALSE}, kw : {TRUE},
     c1 : CounterInputs, c2 : CounterInputs]

MapResponses ==
    UNION {{its \in [1..n -> UNION {MapItems(i) : i \in 1..n}] :
               \A i \in 1..n : its[i].id = i} : n \in 0..MaxMapItems}

\* item.get(field, 0)
CounterOr0(c) == IF c = Absent THEN 0 ELSE c[1]

\* score=... of each mapper: no score (arxiv), one counter (reddit score,
\* hackernews points, lobsters comment_count, github stargazers_count,
\* huggingface upvotes), or the sum of two (x likes + retweets, github
\* reactions + comments, civitai downloads + thumbs up, bluesky likes +
\* reposts, huggingface downloads + likes)
Score(a, kind, it) ==
    CASE a = "arxiv" -> 0
      [] a \in {"reddit", "hackernews", "lobsters"} -> CounterOr0(it.c1)
      [] a = "github" /\ kind = "repos" -> CounterOr0(it.c1)
      [] a = "huggingface" /\ kind # "models" -> CounterOr0(it.c1)
      [] OTHER -> CounterOr0(it.c1) + CounterOr0(it.c2)

\* Post(source=..., url=..., timestamp=..., score=...)
MapItem(a, kind, it, now) ==
    [source |-> a, url |-> Url(a, kind, it), timestamp |-> TimestampAt(a, it, now),
     score |-> Score(a, kind, it)]

\* one run of the mapper on the response: Lobsters' _normalize stops at the
\* first story older than the cutoff and raises on one without created_at,
\* HuggingFace's paper loops skip what is older than the cutoff
MapResponse(a, kind, items, now, cutoff) ==
    LET scan == LobstersScan(items, cutoff, kind, <<>>)
        kept == IF a = "lobsters" THEN SubSeq(items, 1, Len(scan.posts))
                ELSE SelectSeq(items, LAMBDA it :
                         ClientKeeps(a, kind, [lookback_hours |-> Now - cutoff], it))
    IN  IF a = "lobsters" /\ scan.raise
        THEN [raised |-> TRUE, posts |-> <<>>]
        ELSE [raised |-> FALSE,
              posts |-> [i \in DOMAIN kept |-> MapItem(a, kind, kept[i], now)]]

MapInit ==
    /\ m_mapper \in Mappers
    /\ m_items \in MapResponses
    /\ m_cutoff = 0
    /\ m_now = Now
    /\ m_runs = <<>>
    /\ OthersIdle({"map"})

\* the mapper runs on the response, inside a fetch that has just computed its
\* cutoff from the clock (now - lookback_hours, with the default of 24 hours)
Normalize ==
    /\ Len(m_runs) < 2
    /\ m_cutoff' = m_now - 24
    /\ m_runs' = Append(m_runs, MapResponse(m_mapper[1], m_mapper[2], m_items, m_now, m_cutoff'))
    /\ UNCHANGED <<m_mapper, m_items, m_now>>
    /\ UNCHANGED notMap

\* time passes between two runs
MapTick ==
    /\ Len(m_runs) = 1
    /\ m_now = Now
    /\ \E d \in {1, 24} : m_now' = m_now + d
    /\ UNCHANGED <<m_mapper, m_items, m_cutoff, m_runs>>
    /\ UNCHANGED notMap

MapNext ==
    \/ Normalize
    \/ MapTick

SpecMap == MapInit /\ [][MapNext]_vars

\* ================================== the request clocks of a process, together

\* most calls of _rate_limit in a run, and a gap longer than every interval
MaxCalls == 3
LongGap == 30

\* the adapter objects of one class whose requests a run follows
Instances == {1, 2}

\* the module global after a call, were it advanced by the interval instead
\* of set to the clock (a budget that fills up while the process is idle)
NewLastRequestTime_scheduled(last, interval, returned) == last + interval

\* _last_request_time = time.monotonic(), the last line of _rate_limit
NewLastRequestTime(last, interval, returned) == returned

\* one clock for all the modules
SetClock_shared(clocks, a, t) == [b \in DOMAIN clocks |-> t]

\* global _last_request_time: the assignment binds the global of the module
\* the function is defined in
SetClock(clocks, a, t) == [clocks EXCEPT ![a] = t]

LimiterInit ==
    /\ l_now \in {0, MaxStartClock}
    /\ l_last = [a \in RateLimited |-> 0]
    /\ l_log = <<>>
    /\ l_idle = FALSE
    /\ OthersIdle({"limiter"})

\* a request of instance inst of adapter a: _rate_limit() of a's module, from
\* the call to its return (the calls of a process follow one another)
RateLimitCall ==
    /\ Len(l_log) < MaxCalls
    /\ \E a \in RateLimited, inst \in Instances :
        LET elapsed == l_now - l_last[a]
            interval == _MIN_REQUEST_INTERVAL[a]
        IN  /\ IF elapsed < interval
               THEN \E late \in 0..MaxOversleep :
                        l_now' = l_now + (interval - elapsed) + late
               ELSE l_now' = l_now
            /\ l_last' = SetClock(l_last, a, NewLastRequestTime(l_last[a], interval, l_now'))
            /\ l_log' = Append(l_log, [adapter |-> a, instance |-> inst,
                                       called |-> l_now, returned |-> l_now'])
    /\ l_idle' = FALSE
    /\ UNCHANGED notLimiter

\* time passes between two calls: the request itself, the mapping of its
\* payload, or a long pause of the process
Idle ==
    /\ ~l_idle
    /\ Len(l_log) < MaxCalls
    /\ \E gap \in {1, LongGap} : l_now' = l_now + gap
    /\ l_idle' = TRUE
    /\ UNCHANGED <<l_last, l_log>>
    /\ UNCHANGED notLimiter

LimiterNext ==
    \/ RateLimitCall
    \/ Idle

SpecLimiter == LimiterInit /\ [][LimiterNext]_vars

\* ================================================ adapters run concurrently

\* the workers: threads that each run the fetch of one adapter object
Workers == {"w1", "w2"}

\* most requests of one worker, and the last clock reading time gets to tick
\* by tick (the end of a sleep may lie beyond it)
MaxConcRequests == 2
MaxConcClock == 2

\* what a worker's fetch is called with: one term, one Lobsters tag
ConcIn ==
    [terms |-> 1, lookback_hours |-> 24, max_results |-> 20, env |-> {},
     base_models |-> 0, tags |-> 1, keywords |-> FALSE]

\* the first requests of the adapter's plan
ConcPlan(a) == Prefix(Plan(a, ConcIn), MaxConcRequests)

\* the servers' answers here: well-formed items inside the lookback window
\* (for these the page loops of hackernews and lobsters merge like the rest)
ConcResponses ==
    {[kind |-> "ok", items |-> its] :
        its \in {<<FixtureItem(1, 1)>>, <<FixtureItem(1, 1), FixtureItem(2, 1)>>}}

\* the posts and seen set of a fetch that issues the requests of plan one
\* after the other and gets the responses resps
RECURSIVE RunSequentially(_, _, _, _, _)
RunSequentially(a, plan, resps, posts, seen) ==
    IF plan = <<>> \/ resps = <<>> THEN [posts |-> posts, seen |-> seen]
    ELSE LET m == Merge(a, posts, seen, Mapped(a, Head(plan), Head(resps), ConcIn))
         IN  RunSequentially(a, Tail(plan), Tail(resps), m.posts, m.seen)

\* the module globals an assignment changes
Written(clocks, after) == {b \in DOMAIN clocks : after[b] # clocks[b]}

ConcInit ==
    /\ c_adapter \in [Workers -> AdapterNames]
    /\ c_pc = [w \in Workers |-> "call"]
    /\ c_now = 0
    /\ c_last = [a \in RateLimited |-> 0]
    /\ c_wake = [w \in Workers |-> 0]
    /\ c_plan = [w \in Workers |-> ConcPlan(c_adapter[w])]
    /\ c_posts = [w \in Workers |-> <<>>]
    /\ c_seen = [w \in Workers |-> {}]
    /\ c_resp = [w \in Workers |-> <<>>]
    /\ c_starts = [w \in Workers |-> <<>>]
    /\ c_writers = {}
    /\ OthersIdle({"conc"})

\* a worker's fetch comes to its next request: the _get function of the
\* module calls _rate_limit() where there is one
ConcCall ==
    \E w \in Workers :
        /\ c_pc[w] = "call"
        /\ c_pc' = [c_pc EXCEPT ![w] =
                        IF c_plan[w] = <<>> THEN "done"
                        ELSE IF c_adapter[w] \in RateLimited THEN "read" ELSE "send"]
        /\ UNCHANGED <<c_adapter, c_now, c_last, c_wake, c_plan, c_posts, c_seen, c_resp,
                       c_starts, c_writers>>
        /\ UNCHANGED notConc

\* now = time.monotonic(); elapsed = now - _last_request_time;
\* if elapsed < _MIN_REQUEST_INTERVAL: (about to sleep)
ConcRead ==
    \E w \in Workers :
        /\ c_pc[w] = "read"
        /\ LET elapsed == c_now - c_last[c_adapter[w]]
               interval == _MIN_REQUEST_INTERVAL[c_adapter[w]]
           IN  IF elapsed < interval
               THEN /\ c_wake' = [c_wake EXCEPT ![w] = c_now + (interval - elapsed)]
                    /\ c_pc' = [c_pc EXCEPT ![w] = "sleep"]
               ELSE /\ c_pc' = [c_pc EXCEPT ![w] = "write"]
                    /\ UNCHANGED c_wake
        /\ UNCHANGED <<c_adapter, c_now, c_last, c_plan, c_posts, c_seen, c_resp, c_starts,
                       c_writers>>
        /\ UNCHANGED notConc

\* time.sleep(...) is over (not before its time)
ConcWake ==
    \E w \in Workers :
        /\ c_pc[w] = "sleep"
        /\ c_now >= c_wake[w]
        /\ c_pc' = [c_pc EXCEPT ![w] = "write"]
        /\ UNCHANGED <<c_adapter, c_now, c_last, c_wake, c_plan, c_posts, c_seen, c_resp,
                       c_starts, c_writers>>
        /\ UNCHANGED notConc

\* _last_request_time = time.monotonic()
ConcWrite ==
    \E w \in Workers :
        /\ c_pc[w] = "write"
        /\ LET a == c_adapter[w]
               after == SetClock(c_last, a, NewLastRequestTime(c_last[a], _MIN_REQUEST_INTERVAL[a], c_now))
           IN  /\ c_last' = after
               /\ c_writers' = c_writers \cup
                      {[var |-> "_last_request_time", owner |-> b, by |-> w] :
                          b \in Written(c_last, after) \cup {a}}
        /\ c_pc' = [c_pc EXCEPT ![w] = "send"]
        /\ UNCHANGED <<c_adapter, c_now, c_wake, c_plan, c_posts, c_seen, c_resp, c_starts>>
        /\ UNCHANGED notConc

\* urlopen(req), and the loop body of fetch that merges the mapped payload
\* into the posts list and the seen set of this fetch call
ConcSend ==
    \E w \in Workers :
        /\ c_pc[w] = "send"
        /\ \E resp \in ConcResponses :
            LET a == c_adapter[w]
                m == Merge(a, c_posts[w], c_seen[w], Mapped(a, Head(c_plan[w]), resp, ConcIn))
            IN  /\ c_posts' = [c_posts EXCEPT ![w] = m.posts]
                /\ c_seen' = [c_seen EXCEPT ![w] = m.seen]
                /\ c_resp' = [c_resp EXCEPT ![w] = Append(@, resp)]
        /\ c_starts' = [c_starts EXCEPT ![w] = Append(@, c_now)]
        /\ c_plan' = [c_plan EXCEPT ![w] = Tail(@)]
        /\ c_writers' = c_writers \cup
               {[var |-> v, owner |-> w, by |-> w] :
                   v \in IF c_adapter[w] = "x" THEN {"posts"} ELSE {"posts", "seen"}}
        /\ c_pc' = [c_pc EXCEPT ![w] = "call"]
        /\ UNCHANGED <<c_adapter, c_now, c_last, c_wake>>
        /\ UNCHANGED notConc

\* time passes: by one tick, or to the end of a worker's sleep
ConcPass ==
    /\ \E w \in Workers : c_pc[w] # "done"
    /\ \E t \in {s \in {c_now + 1} : s <= MaxConcClock}
                \cup {c_wake[w] : w \in {v \in Workers : c_pc[v] = "sleep"}} :
        /\ t > c_now
        /\ c_now' = t
    /\ UNCHANGED <<c_adapter, c_pc, c_last, c_wake, c_plan, c_posts, c_seen, c_resp,
                   c_starts, c_writers>>
    /\ UNCHANGED notConc

ConcNext ==
    \/ ConcCall
    \/ ConcRead
    \/ ConcWake
    \/ ConcWrite
    \/ ConcSend
    \/ ConcPass

SpecConc == ConcInit /\ [][ConcNext]_vars

\* ================================== the default search terms, by character

\* the characters of a topic string, and its greatest length
TopicChars == {"a", "b", " ", ","}
MaxTopic == 4

TopicStrings == SeqsUpTo(TopicChars, MaxTopic)

\* the adapters that build their terms with the same four lines (hackernews
\* does so inline in fetch)
TermBuilders == {"reddit", "arxiv", "github", "civitai", "lobsters", "bluesky", "hackernews"}

\* queries: None, the empty list, or a list of one query
TermQueryInputs == {Absent, Some(<<>>), Some(<<<<"a", "b">>>>)}

\* topic.split(","): the pieces between the commas, the empty ones too
RECURSIVE split_comma(_, _)
split_comma(s, piece) ==
    IF s = <<>> THEN <<piece>>
    ELSE IF Head(s) = "," THEN <<piece>> \o split_comma(Tail(s), <<>>)
    ELSE split_comma(Tail(s), Append(piece, Head(s)))

\* t.strip(): without its leading and trailing whitespace
RECURSIVE lstrip(_)
lstrip(s) == IF s # <<>> /\ IsSpace(Head(s)) THEN lstrip(Tail(s)) ELSE s

RECURSIVE rstrip(_)
rstrip(s) ==
    IF s # <<>> /\ IsSpace(s[Len(s)]) THEN rstrip(SubSeq(s, 1, Len(s) - 1)) ELSE s

strip(s) == rstrip(lstrip(s))

\* the builder without its fallback: an empty list for a topic without a term
DefaultTerms_nofallback(topic, qs) ==
    IF Truthy(qs) THEN qs[1]
    ELSE LET pieces == split_comma(topic, <<>>)
             stripped == [i \in DOMAIN pieces |-> strip(pieces[i])]
         IN  SelectSeq(stripped, LAMBDA t : t # <<>>)

\* if queries: return queries
\* terms = [t.strip() for t in topic.split(",") if t.strip()]
\* return terms or [topic]
DefaultTerms(topic, qs) ==
    IF Truthy(qs) THEN qs[1]
    ELSE LET pieces == split_comma(topic, <<>>)
             stripped == [i \in DOMAIN pieces |-> strip(pieces[i])]
             terms == SelectSeq(stripped, LAMBDA t : t # <<>>)
         IN  IF terms = <<>> THEN <<topic>> ELSE terms

TermsInit ==
    /\ b_adapter \in TermBuilders
    /\ b_topic \in TopicStrings
    /\ b_queries \in TermQueryInputs
    /\ b_terms = <<>>
    /\ b_pc = "call"
    /\ OthersIdle({"terms"})

\* search_terms = self._build_search_terms(topic, queries)
BuildSearchTerms ==
    /\ b_pc = "call"
    /\ b_terms' = DefaultTerms(b_topic, b_queries)
    /\ b_pc' = "done"
    /\ UNCHANGED <<b_adapter, b_topic, b_queries>>
    /\ UNCHANGED notTerms

TermsNext == BuildSearchTerms

SpecTerms == TermsInit /\ [][TermsNext]_vars

\* ============================================ the server-side window, by hour

\* the greatest lookback_hours tried: beyond the month threshold
MaxLookback == 750

\* civitai.py PERIOD_MAP, sorted by threshold
PERIOD_MAP == <<[threshold |-> 24, label |-> "Day"],
                [threshold |-> 168, label |-> "Week"],
                [threshold |-> 720, label |-> "Month"]>>

\* civitai.py _period_filter, with the labels as the API takes them
_period_filter(lookback_hours) == FirstFit(PERIOD_MAP, lookback_hours, "Month")

WindowInit ==
    /\ w_adapter \in {"reddit", "civitai"}
    /\ w_hours \in 0..MaxLookback
    /\ w_label = None
    /\ w_pc = "call"
    /\ OthersIdle({"window"})

\* time_filter = self._time_filter(lookback_hours); period = _period_filter(lookback_hours)
WindowFilter ==
    /\ w_pc = "call"
    /\ w_label' = IF w_adapter = "reddit" THEN _time_filter(w_hours)
                  ELSE _period_filter(w_hours)
    /\ w_pc' = "done"
    /\ UNCHANGED <<w_adapter, w_hours>>
    /\ UNCHANGED notWindow

WindowNext == WindowFilter

SpecWindow == WindowInit /\ [][WindowNext]_vars

\* ================================ the merge loops of HackerNews, hit by hit

\* the queries of a call and the hits of one search, at most
MaxHNQueries == 2
MaxHits == 2

\* a hit with the given objectID
Hit(id) == [id |-> id, ts |-> Some(Now - 1), bad |-> FALSE, kw |-> TRUE]

\* what a search may bring: a failed search brings the empty list, a story
\* search stories, the comment search comments, each with or without objectID
StoryHits == SeqsUpTo({Hit(id) : id \in ItemIds \cup {EmptyId}}, MaxHits)
CommentHits == SeqsUpTo({Hit(id) : id \in CommentIds \cup {EmptyId}}, MaxHits)

\* the keys of the hits that give no Post: an empty objectID, or a key the
\* seen set holds already
RECURSIVE NoPostHits(_, _, _)
NoPostHits(kind, seen, items) ==
    IF items = <<>> THEN {}
    ELSE LET key == SeenKey("hackernews", kind, Head(items)) IN
         IF Head(items).id = EmptyId \/ key \in seen
         THEN {key} \cup NoPostHits(kind, seen, Tail(items))
         ELSE NoPostHits(kind, seen \cup {key}, Tail(items))

\* one of the two merge loops over a list of hits
MergeHits(kind, hits, posts, seen) ==
    DedupAppend(posts, seen,
                Mapped("hackernews", [kind |-> kind], [kind |-> "ok", items |-> hits],
                       [max_results |-> h_max]))

DedupInit ==
    /\ h_max \in MaxResultsInputs
    /\ h_left \in 1..MaxHNQueries
    /\ h_seen = {} /\ h_posts = <<>> /\ h_dropped = {}
    /\ h_result = <<>>
    /\ h_pc = "run"
    /\ OthersIdle({"dedup"})

\* hackernews.py 35-60, one turn of the loop over the queries: the three
\* searches, the loop over story_hits + recent_hits, the loop over comment_hits
HNQuery ==
    /\ h_pc = "run"
    /\ h_left > 0
    /\ \E story_hits \in StoryHits, recent_hits \in StoryHits, comment_hits \in CommentHits :
        LET stories == MergeHits("story", story_hits \o recent_hits, h_posts, h_seen)
            all == MergeHits("comment", comment_hits, stories.posts, stories.seen)
        IN  /\ h_posts' = all.posts
            /\ h_seen' = all.seen
            /\ h_dropped' = h_dropped
                   \cup NoPostHits("story", h_seen, story_hits \o recent_hits)
                   \cup NoPostHits("comment", stories.seen, comment_hits)
    /\ h_left' = h_left - 1
    /\ UNCHANGED <<h_max, h_result, h_pc>>
    /\ UNCHANGED notDedup

\* return posts[:max_results]
HNReturn ==
    /\ h_pc = "run"
    /\ h_left = 0
    /\ h_result' = Prefix(h_posts, h_max)
    /\ h_pc' = "returned"
    /\ UNCHANGED <<h_max, h_left, h_seen, h_posts, h_dropped>>
    /\ UNCHANGED notDedup

DedupNext ==
    \/ HNQuery
    \/ HNReturn

SpecDedup == DedupInit /\ [][DedupNext]_vars

\* =================================================================== claims
\* ------------------------------------------------ orchestrator (SpecOrch)

AllRegistered == \A i \in DOMAIN source_names : source_names[i] \in DOMAIN ADAPTERS

Finished == pc \in {"returned", "serialized"}

CallNames == [i \in DOMAIN calls |-> calls[i].name]

\* what each invoked adapter handed back: its list, or nothing when it raised
ReturnedLists == [i \in DOMAIN calls |-> IF calls[i].raised THEN <<>> ELSE calls[i].posts]

Count(p, s) == Cardinality({i \in DOMAIN s : s[i] = p})

\* C1: with every name registered, fetch_posts never aborts; when it returns it
\* has invoked every adapter of the list, the result holds exactly the posts of
\* the adapters that did not raise (a raising adapter adds none), and it is the
\* empty list when every adapter raised or returned nothing.
C1_PartialFailureIsolation ==
    AllRegistered =>
        /\ pc # "exit"
        /\ Finished =>
            /\ CallNames = source_names
            /\ \A p \in Range(all_posts) \cup Range(Flatten(ReturnedLists)) :
                   Count(p, all_posts) = Count(p, Flatten(ReturnedLists))
            /\ (\A i \in DOMAIN calls : calls[i].raised \/ calls[i].posts = <<>>)
                   => all_posts = <<>>

\* C1 witness: a run that returned although an adapter raised, with the posts of
\* a later adapter in the result
C1_Witness ==
    /\ pc = "returned"
    /\ \E i, j \in DOMAIN calls :
          i < j /\ calls[i].raised /\ ~calls[j].raised /\ calls[j].posts # <<>>
    /\ all_posts # <<>>

\* C2: a list holding an unregistered name, at any position, makes fetch_posts
\* abort before any adapter's fetch is invoked and before any HTTP request.
C2_UnknownAdapterFailsFast ==
    ~AllRegistered => (calls = <<>> /\ http_calls = 0 /\ ~Finished)

CredentialsMissing ==
    /\ "X_BEARER_TOKEN" \notin environ
    /\ ~("X_CONSUMER_KEY" \in environ /\ "X_API_KEY" \in environ)

\* C10: with neither X_BEARER_TOKEN nor both of X_CONSUMER_KEY and X_API_KEY
\* set, XAdapter.fetch raises before any HTTP request, x contributes no post,
\* and fetch_posts still runs every other adapter of the list.
C10_MissingXCredentials ==
    CredentialsMissing =>
        /\ \A i \in DOMAIN calls :
              calls[i].name = "x" =>
                  calls[i].raised /\ calls[i].http = 0 /\ calls[i].posts = <<>>
        /\ \A i \in DOMAIN all_posts : all_posts[i].source # "x"
        /\ (AllRegistered /\ Finished) => CallNames = source_names

\* C10 witness: x raised for lack of credentials and a later adapter delivered
C10_Witness ==
    /\ CredentialsMissing
    /\ pc = "returned"
    /\ \E i, j \in DOMAIN calls :
          /\ i < j /\ calls[i].name = "x" /\ calls[i].raised /\ calls[i].http = 0
          /\ calls[j].name # "x" /\ calls[j].posts # <<>>

\* ------------------------------------------------ one fetch call (SpecFetch)

\* the terms (for Lobsters: the tags) that were requested at least once
TermsRequested == {f_requests[i].term : i \in DOMAIN f_requests}

TermsPlanned == 1..(IF f_adapter = "lobsters" THEN f_in.tags ELSE f_in.terms)

\* C3: the list one fetch call returns, of any adapter, holds no two Posts with
\* the same non-empty url.
C3_LocalDedup ==
    f_pc = "returned" =>
        \A i, j \in DOMAIN f_result :
            (i # j /\ f_result[i].url.id # 0) => f_result[i].url # f_result[j].url

\* C4: every Post one fetch call returns, of any adapter, that carries a
\* timestamp was created at or after now - lookback_hours.
C4_CutoffInvariant ==
    f_pc = "returned" =>
        \A i \in DOMAIN f_result :
            f_result[i].timestamp # Absent
                => f_result[i].timestamp[1] >= Cutoff(f_in.lookback_hours)

\* C6: in every adapter a failed HTTP call (network error, timeout, non-2xx)
\* never makes fetch raise: with nothing wrong but failed calls fetch returns
\* normally, and every term of the plan has still been requested.
C6_FailedRequestDegrades ==
    /\ f_cause # "request_failed"
    /\ f_events = {"fail"} => f_pc # "raised"
    /\ (f_pc = "returned" /\ "fail" \in f_events) => TermsPlanned \subseteq TermsRequested

\* C7: in every adapter a malformed payload never makes fetch raise: it counts
\* as zero results for its term or page, and every term of the plan is still
\* requested.
C7_MalformedPayloadDegrades ==
    /\ f_cause # "payload"
    /\ "malformed" \in f_events => f_pc # "raised"
    /\ (f_pc = "returned" /\ "malformed" \in f_events) => TermsPlanned \subseteq TermsRequested

\* ------------------------------------------------ the request clock (SpecRate)

\* the interval the spacing contract asks of adapter a: its configured one, and
\* for an adapter with none the smallest interval of any source
RequiredInterval(a) ==
    IF a \in RateLimited THEN _MIN_REQUEST_INTERVAL[a] ELSE civitai_MIN_REQUEST_INTERVAL

\* C5: for every adapter, any two consecutive HTTP requests of a fetch start at
\* least that adapter's minimum interval apart.
C5_RateLimiterSpacing ==
    \A i \in 1..(Len(r_starts) - 1) :
        r_starts[i + 1] - r_starts[i] >= RequiredInterval(r_adapter)

\* ------------------------------------------------ the query plan (SpecPlan)

\* C8: with a non-empty explicit query list, the requests an adapter builds
\* (search terms and filter parameters) are the same for every topic string.
C8_ExplicitQueriesBypassTopic ==
    (p_pc = "done" /\ Truthy(p_queries)) =>
        \A topic \in TopicInputs : QueryPlan(p_adapter, topic, p_queries) = p_out

\* the hard cap of the API behind an endpoint of adapter a, if its requests
\* carry a result count that follows max_results
HardCap(a, endpoint) ==
    CASE a \in {"x", "reddit", "bluesky"} -> Some(100)
      [] a = "github" -> Some(30)
      [] a \in {"arxiv", "civitai"} -> Some(20)
      [] a = "huggingface" /\ endpoint # "papers/search" -> Some(50)
      [] OTHER -> Absent

\* the fixed page size of a HackerNews endpoint
HNPageSize(endpoint) == IF endpoint = "search comment" THEN 50 ELSE 20

EndsWithEllipsis(s) == Len(s) >= 3 /\ SubSeq(s, Len(s) - 2, Len(s)) = Ellipsis

\* the positions up to the budget at which the body has a whitespace character
BreakPoints(body) == {i \in 1..Min(max_len, Len(body)) : IsSpace(body[i])}

\* C12: a body longer than the budget B comes out at most B + 3 long, ending
\* with the ellipsis, the part before it being the prefix of the body that ends
\* at the last whitespace at or before position B (with or without that
\* whitespace; the first B characters when there is none); a body of at most B
\* characters gets no ellipsis.
C12_Truncation ==
    (t_pc = "done" /\ t_impl \in {"github", "huggingface", "civitai"}) =>
        IF Len(t_body) > max_len
        THEN /\ Len(t_out) <= max_len + 3
             /\ EndsWithEllipsis(t_out)
             /\ LET kept == SubSeq(t_out, 1, Len(t_out) - 3)
                    bp == BreakPoints(t_body)
                IN  IF bp = {} THEN kept = SubSeq(t_body, 1, max_len)
                    ELSE kept \in {SubSeq(t_body, 1, Max(bp) - 1), SubSeq(t_body, 1, Max(bp))}
        ELSE ~EndsWithEllipsis(t_out)

\* ------------------------------------------------ fixed answers (SpecScenario)

\* C13: with Reddit answering 3 items (1 of them older than the cutoff) and
\* Arxiv answering 2, the run returns exactly 4 Posts, 2 of source reddit and 2
\* of source arxiv, and total_posts is 4.
C13_EndToEndScenario ==
    pc = "serialized" =>
        /\ Len(all_posts) = 4
        /\ Cardinality({i \in DOMAIN all_posts : all_posts[i].source = "reddit"}) = 2
        /\ Cardinality({i \in DOMAIN all_posts : all_posts[i].source = "arxiv"}) = 2
        /\ posts_json.total_posts = 4

\* ------------------------------------------------ field mapping (SpecMap)

\* the item a Post of the first run was made of (the mappers keep the order and
\* the id of the items)
ItemOf(post) == CHOOSE it \in Range(m_items) : it.id = post.url.id

\* the counters the score of mapper m is made of
NativeCounters(m, it) ==
    CASE m[1] = "arxiv" -> {}
      [] m[1] \in {"reddit", "hackernews", "lobsters"} -> {it.c1}
      [] m \in {<<"github", "repos">>, <<"huggingface", "papers">>,
                <<"huggingface", "daily">>} -> {it.c1}
      [] OTHER -> {it.c1, it.c2}

\* C14: every Post has score >= 0, whatever the native counters of its item
\* are, and score 0 when the item has no native score.
C14_ScoreNeverNegative ==
    \A r \in DOMAIN m_runs : \A i \in DOMAIN m_runs[r].posts :
        LET post == m_runs[r].posts[i] IN
        /\ post.score >= 0
        /\ NativeCounters(m_mapper, ItemOf(post)) \subseteq {Absent} => post.score = 0

\* C14, its second half alone: a Post made of an item without native counters
\* has score 0
C14_MissingScoreIsZero ==
    \A r \in DOMAIN m_runs : \A i \in DOMAIN m_runs[r].posts :
        LET post == m_runs[r].posts[i] IN
        NativeCounters(m_mapper, ItemOf(post)) \subseteq {Absent} => post.score = 0

\* ------------------------------------------------ source tag (SpecOrch)

\* C15: every Post of the result of fetch_posts has a non-empty source that is
\* a key of ADAPTERS, and that is both the key under which the adapter that
\* produced it was selected and the name property of that adapter.
C15_SourceTagInvariant ==
    \A k \in DOMAIN all_posts :
        LET post == all_posts[k] IN
        /\ post.source # ""
        /\ post.source \in DOMAIN ADAPTERS
        /\ \E i \in DOMAIN calls :
              /\ ~calls[i].raised
              /\ post \in Range(calls[i].posts)
              /\ post.source = calls[i].name
              /\ post.source = AdapterClasses[ADAPTERS[calls[i].name]]

\* C15 witness: a returned result with Posts of two different adapters
C15_Witness ==
    /\ Finished
    /\ Len(all_posts) = 2
    /\ all_posts[1].source # all_posts[2].source
    /\ \A i \in DOMAIN calls : ~calls[i].raised

\* the mappers whose result depends on a cutoff
CutoffMappers == {<<"lobsters", "tag">>, <<"huggingface", "papers">>, <<"huggingface", "daily">>}

\* two runs gave the same Posts but for the timestamps of items that carry none
SameButMissingTimestamps(run1, run2) ==
    /\ run1.raised = run2.raised
    /\ Len(run1.posts) = Len(run2.posts)
    /\ \A i \in DOMAIN run1.posts :
          /\ [run1.posts[i] EXCEPT !.timestamp = Absent] = [run2.posts[i] EXCEPT !.timestamp = Absent]
          /\ ItemOf(run1.posts[i]).ts # Absent => run1.posts[i] = run2.posts[i]

\* C16: two runs of a mapper on the same response give the same Posts in the
\* same order when every item carries a timestamp, and otherwise differ at most
\* in the timestamps of the items that carry none.
C16_DeterministicMapping ==
    Len(m_runs) = 2 =>
        /\ (\A i \in DOMAIN m_items : m_items[i].ts # Absent) => m_runs[1] = m_runs[2]
        /\ SameButMissingTimestamps(m_runs[1], m_runs[2])

\* C16 for the mappers that take no cutoff
C16_DeterministicWithoutCutoff ==
    m_mapper \notin CutoffMappers => C16_DeterministicMapping

\* ------------------------------------------------ logging (SpecFetch)

\* C17: a failed HTTP call of an adapter is never absorbed without a warning
\* that names the source: either fetch goes on and the adapter has printed its
\* warning, or the failure leaves fetch as an exception, which fetch_posts
\* catches and reports.
C17_NoUnloggedDegradation ==
    "fail" \in f_events =>
        \/ f_cause = "request_failed"
        \/ \E w \in f_warnings : w \in Range(FailureWarning)

\* ------------------------------------------------ explicit queries (SpecOrch)

\* C18: fetch_posts hands the query list it was given to the adapter registered
\* as "x" and no queries (None) to every other adapter.
C18_QueriesReachOnlyX ==
    \A i \in DOMAIN calls :
        calls[i].queries = (IF calls[i].name = "x" THEN queries ELSE Absent)

\* C18 witness: a returned run with explicit queries in which the adapter of x
\* and another adapter were invoked
C18_Witness ==
    /\ Finished
    /\ queries # Absent
    /\ \E i, j \in DOMAIN calls :
          /\ calls[i].name = "x" /\ calls[i].queries = queries
          /\ calls[j].name # "x" /\ calls[j].queries = Absent

\* ------------------------------------------------ request clocks (SpecLimiter)

\* the calls of _rate_limit of module a, in order
CallsOf(a) == SelectSeq(l_log, LAMBDA c : c.adapter = a)

\* C19: every call of _rate_limit leaves the module's last-request clock at the
\* time it returns, whether or not it slept, and two consecutive returns of
\* one module are at least its minimum interval apart, however long the
\* process was idle before.
C19_NoBursting ==
    \A a \in RateLimited :
        LET cs == CallsOf(a) IN
        /\ cs # <<>> => l_last[a] = cs[Len(cs)].returned
        /\ \A i \in 1..(Len(cs) - 1) :
              cs[i + 1].returned - cs[i].returned >= _MIN_REQUEST_INTERVAL[a]

\* C19 witness: after a long idle period a call returns without sleeping, and
\* the next call of the same module, made at once, sleeps the whole interval
C19_Witness ==
    \E a \in RateLimited :
        LET cs == CallsOf(a) IN
        /\ Len(cs) >= 2
        /\ cs[1].called >= LongGap
        /\ cs[1].returned = cs[1].called
        /\ cs[2].called = cs[1].returned
        /\ cs[2].returned >= cs[2].called + _MIN_REQUEST_INTERVAL[a]

\* C20: each module has one last-request clock, which every request of its
\* adapter reads and sets, whichever instance makes it: the clock is the return
\* time of the module's last call (its initial 0.0 before the first), so a
\* call of another module's _rate_limit leaves it unchanged, and calls of
\* different instances of one adapter are spaced like those of one.
C20_RateLimiterScope ==
    \A a \in RateLimited :
        LET cs == CallsOf(a) IN
        /\ l_last[a] = (IF cs = <<>> THEN 0 ELSE cs[Len(cs)].returned)
        /\ \A i \in 1..(Len(cs) - 1) :
              cs[i + 1].instance # cs[i].instance =>
                  cs[i + 1].returned >= cs[i].returned + _MIN_REQUEST_INTERVAL[a]

\* C20 witness: two instances of one adapter and another adapter in between:
\* the second instance waits for the first one's request, not for the other
\* adapter's
C20_Witness ==
    /\ Len(l_log) = 3
    /\ l_log[1].adapter = l_log[3].adapter
    /\ l_log[1].instance # l_log[3].instance
    /\ l_log[2].adapter # l_log[1].adapter
    /\ l_log[3].returned > l_log[3].called
    /\ l_last[l_log[2].adapter] = l_log[2].returned
    /\ l_last[l_log[2].adapter] # l_last[l_log[1].adapter]

\* ------------------------------------------------ concurrent workers (SpecConc)

\* the workers run different adapters
DifferentAdapters == \A v, w \in Workers : v # w => c_adapter[v] # c_adapter[w]

Dist(s, t) == IF s < t THEN t - s ELSE s - t

\* C22: two concurrent callers of one adapter's _rate_limit, their reads,
\* sleeps and writes interleaved: the requests that follow start at least the
\* adapter's minimum interval apart.
C22_ConcurrentCallersSpaced ==
    \A v, w \in Workers :
        (v # w /\ c_adapter[v] = c_adapter[w] /\ c_adapter[v] \in RateLimited) =>
            \A i \in DOMAIN c_starts[v], j \in DOMAIN c_starts[w] :
                Dist(c_starts[v][i], c_starts[w][j]) >= _MIN_REQUEST_INTERVAL[c_adapter[v]]

\* ------------------------------------------------ requests of a fetch (SpecFetch)

\* the requests of the plan issued so far (without X's credential exchange)
PlanRequests == SelectSeq(f_requests, LAMBDA r : r # TokenReq)

\* s is t with some of its elements left out
RECURSIVE IsSubSeq(_, _)
IsSubSeq(s, t) ==
    IF s = <<>> THEN TRUE
    ELSE IF t = <<>> THEN FALSE
    ELSE IF Head(s) = Head(t) THEN IsSubSeq(Tail(s), Tail(t))
    ELSE IsSubSeq(s, Tail(t))

\* C23: within one fetch call no (term, endpoint, page) request is issued
\* twice, whatever failed: the requests issued are requests of the plan in plan
\* order, and where no page loop is left early they are the plan's first ones.
C23_NoAutomaticRetry ==
    f_adapter # None =>
        LET plan == Plan(f_adapter, f_in)
            issued == PlanRequests
        IN  /\ \A i, j \in DOMAIN f_requests : i < j => f_requests[i] # f_requests[j]
            /\ IsSubSeq(issued, plan)
            /\ f_adapter # "lobsters" => issued = Prefix(plan, Len(issued))

\* C23 witness: a fetch that returned after a failed request, having issued the
\* whole plan of several requests once
C23_Witness ==
    /\ f_pc = "returned"
    /\ "fail" \in f_events
    /\ Len(PlanRequests) >= 2
    /\ PlanRequests = Plan(f_adapter, f_in)

\* ------------------------------------------------ Lobsters pagination (SpecFetch)

\* the stories of a page before its first one older than the cutoff
BeforeCutoff(items, cutoff) ==
    LET old == {i \in DOMAIN items : items[i].ts # Absent /\ items[i].ts[1] < cutoff}
    IN  IF old = {} THEN items ELSE SubSeq(items, 1, MinOf(old) - 1)

\* what the scan of any page the next request can bring keeps: Posts of the
\* stories before the first old one only (of those with a keyword, in the
\* newest scan)
ScanStopsAtCutoff ==
    (f_pc = "run" /\ f_plan # <<>>) =>
        LET req == Head(f_plan)
            cutoff == Cutoff(f_in.lookback_hours)
        IN  \A resp \in Responses(req) :
                LET scan == LobstersScan(resp.items, cutoff, req.kind, <<>>)
                    before == SelectSeq(BeforeCutoff(resp.items, cutoff),
                                        LAMBDA s : req.kind = "tag" \/ s.kw)
                IN  (resp.kind = "ok" /\ ~scan.raise) =>
                        /\ scan.hit_cutoff = OldOnPage(resp, cutoff)
                        /\ scan.posts = [i \in DOMAIN before |->
                               [post |-> ToPost("lobsters", req.kind, before[i]),
                                key |-> Url("lobsters", req.kind, before[i])]]

\* C24: in Lobsters' per-tag fetch and in its newest scan, once a page shows a
\* story older than the cutoff no story at or after it on the page is kept and
\* no later page of that tag or scan is requested; every Post fetch collects
\* or returns was created at or after the cutoff.
C24_LobstersShortCircuit ==
    f_adapter = "lobsters" =>
        /\ \A c \in f_cut : \A i \in DOMAIN f_requests :
              ~(/\ f_requests[i].kind = c.kind /\ f_requests[i].term = c.term
                /\ f_requests[i].page > c.page)
        /\ ScanStopsAtCutoff
        /\ \A p \in Range(f_posts) \cup Range(f_result)
                    \cup {f_local[i].post : i \in DOMAIN f_local} :
              p.timestamp # Absent /\ p.timestamp[1] >= Cutoff(f_in.lookback_hours)

\* C24 witness: the first page of the only tag held a recent story and then
\* an old one: fetch returned the recent one after that single request
C24_Witness ==
    /\ f_adapter = "lobsters"
    /\ f_pc = "returned"
    /\ f_in.tags = 1 /\ ~f_in.keywords
    /\ Len(f_requests) = 1
    /\ f_cut = {f_requests[1]}
    /\ Len(f_result) = 1

\* ------------------------------------------------ default terms (SpecTerms)

\* a string without the characters of set drop
RECURSIVE Without(_, _)
Without(s, drop) ==
    IF s = <<>> THEN <<>>
    ELSE IF Head(s) \in drop THEN Without(Tail(s), drop)
    ELSE <<Head(s)>> \o Without(Tail(s), drop)

\* the positions of the topic where a segment's first non-blank character is
SegmentStarts(topic) ==
    {i \in DOMAIN topic :
        /\ topic[i] \notin {",", " "}
        /\ \A j \in 1..(i - 1) :
              (\A k \in j..(i - 1) : topic[k] # ",") => topic[j] = " "}

\* t is a piece of s
IsPieceOf(t, s) == \E i, j \in 0..Len(s) : SubSeq(s, i + 1, j) = t

\* C25: with queries absent or empty, the builder returns the comma-separated
\* segments of the topic, trimmed, the empty ones dropped, in order, or the raw
\* topic as the only term when no segment remains; never an empty list.
C25_DefaultQueryBuilding ==
    (b_pc = "done" /\ ~Truthy(b_queries)) =>
        /\ b_terms # <<>>
        /\ IF SegmentStarts(b_topic) = {}
           THEN b_terms = <<b_topic>>
           ELSE /\ Len(b_terms) = Cardinality(SegmentStarts(b_topic))
                /\ \A i \in DOMAIN b_terms :
                      LET t == b_terms[i] IN
                      /\ t # <<>>
                      /\ ~IsSpace(t[1]) /\ ~IsSpace(t[Len(t)])
                      /\ "," \notin Range(t)
                      /\ IsPieceOf(t, b_topic)
                /\ Without(Flatten(b_terms), {" "}) = Without(b_topic, {" ", ","})

\* C25 witness: a topic of two segments with blanks around them, and a topic
\* of commas and blanks only
C25_Witness ==
    /\ b_pc = "done"
    /\ b_queries = Some(<<>>)
    /\ \/ b_topic = <<" ", "a", ",", "b">> /\ b_terms = <<<<"a">>, <<"b">>>>
       \/ b_topic = <<",", " ">> /\ b_terms = <<b_topic>>

\* ------------------------------------------------ the Arxiv snippet (SpecTrunc)

\* C26: the snippet of an abstract longer than the budget ends with the
\* ellipsis and the part before it is a prefix of the abstract that does not
\* end in the middle of a word; an abstract within the budget is kept whole,
\* without ellipsis. The abstract is the text as the mapper measures it, with
\* its whitespace collapsed.
C26_ArxivWordBoundary ==
    (t_pc = "done" /\ t_impl = "arxiv") =>
        LET abstract == NormalizeSpace(t_body) IN
        IF Len(abstract) > max_len
        THEN /\ EndsWithEllipsis(t_out)
             /\ LET kept == SubSeq(t_out, 1, Len(t_out) - 3) IN
                /\ kept = SubSeq(abstract, 1, Len(kept))
                /\ Len(kept) < Len(abstract)
                /\ ~(kept # <<>> /\ ~IsSpace(kept[Len(kept)])
                                 /\ ~IsSpace(abstract[Len(kept) + 1]))
        ELSE t_out = abstract

\* ------------------------------------------------ client-side truncation (SpecFetch)

\* C27: the list a fetch call of the HackerNews or the Lobsters adapter returns
\* has at most max_results Posts, the first ones in collection order.
C27_ClientSideTruncation ==
    (f_pc = "returned" /\ f_adapter \in {"hackernews", "lobsters"}) =>
        /\ Len(f_result) <= f_in.max_results
        /\ f_result = Prefix(f_posts, f_in.max_results)

\* the same for the HackerNews adapter alone
C27_HackerNewsTruncates ==
    (f_pc = "returned" /\ f_adapter = "hackernews") =>
        /\ Len(f_result) <= f_in.max_results
        /\ f_result = Prefix(f_posts, f_in.max_results)

\* ------------------------------------------------ server-side window (SpecWindow)

\* the length in hours of the window a label asks the server for
WindowLength ==
    [day |-> 24, week |-> 168, month |-> 720, Day |-> 24, Week |-> 168, Month |-> 720]

\* the labels each filter may return
WindowLabels ==
    [reddit |-> {"day", "week", "month"}, civitai |-> {"Day", "Week", "Month"}]

\* C28: the filter returns the smallest of the day, week and month windows
\* that is at least lookback_hours long, the month window above 720 hours; up
\* to 720 hours the window is never shorter than the lookback.
C28_WindowMapping ==
    w_pc = "done" =>
        /\ w_label \in WindowLabels[w_adapter]
        /\ LET len == WindowLength[w_label]
               fits == {n \in {24, 168, 720} : n >= w_hours}
           IN  /\ w_hours > 720 => len = 720
               /\ w_hours <= 720 => (len >= w_hours /\ \A n \in fits : len <= n)

\* C28 witness: a lookback equal to a threshold keeps that threshold's window,
\* and a lookback above the last one gets the month
C28_Witness ==
    /\ w_pc = "done"
    /\ \/ w_adapter = "reddit" /\ w_hours = 168 /\ w_label = "week"
       \/ w_adapter = "civitai" /\ w_hours = 721 /\ w_label = "Month"

\* ------------------------------------------------ HackerNews dedup (SpecDedup)

RequestsByPlan(a, in) ==
    CASE a \in {"arxiv", "bluesky"} -> in.terms
      [] a = "reddit" -> in.terms + 4
      [] a = "github" -> 2 * in.terms
      [] a = "hackernews" -> 3 * in.terms
      [] a = "civitai" -> in.terms + in.base_models
      [] a = "lobsters" -> 3 * in.tags + 4

\* the requests issued so far for one tag, or for the newest scan
PagesOf(kind, term) ==
    Len(SelectSeq(f_requests, LAMBDA r : r.kind = kind /\ r.term = term))

C30_Counted == {"arxiv", "bluesky", "reddit", "github", "hackernews", "civitai", "lobsters"}

\* the call is over: it returned or it raised
C30_Terminated == f_pc \in {"returned", "raised"}

\* a call never issues more requests than its plan gives, a Lobsters call at
\* most three pages per tag and four newest pages, and a call that returns
\* has issued exactly the number its plan gives (Lobsters apart)
C30_Bounded ==
    f_adapter \in C30_Counted =>
        /\ Len(f_requests) <= RequestsByPlan(f_adapter, f_in)
        /\ f_adapter = "lobsters" =>
              /\ \A t \in 1..f_in.tags : PagesOf("tag", t) <= 3
              /\ PagesOf("newest", 0) <= 4
        /\ (f_pc = "returned" /\ f_adapter # "lobsters") =>
              Len(f_requests) = RequestsByPlan(f_adapter, f_in)

\* C30: provided every HTTP call returns or fails, a fetch call ends, after a
\* number of requests fixed by its query plan: one per term (arxiv, bluesky),
\* one per term plus four (reddit), two per term (github), three per query
\* (hackernews), one per term plus one per base model (civitai), at most three
\* pages per tag plus four newest pages (lobsters).
C30_BoundedWorkAndTermination == []C30_Bounded /\ <>C30_Terminated

\* C30 witness: a GitHub call of one term that returned after its two requests
C30_Witness ==
    /\ f_adapter = "github" /\ f_in.terms = 1
    /\ f_pc = "returned"
    /\ Len(f_requests) = 2

====
